---- MODULE Spec2Model ----
(***************************************************************************)
(* A model of the codevisualizer analysis pipeline: the bounded directory  *)
(* walker (collectEntries), the dependency resolver (resolveSpecifier),    *)
(* the structure graph with export-usage accounting (buildStructureGraph), *)
(* the clone detector (findSymbolClones), the orchestrator                 *)
(* (analyzeProject) and the server's snippet reader (readSourceSnippet).   *)
(* Each component has its own specification over the shared variables;    *)
(* the variables of the other components stay at their idle values.        *)
(***************************************************************************)
EXTENDS Integers, Sequences, FiniteSets, TLC

VARIABLES
    \* ---- collectEntries (utils/fileSystem) ----
    pc,           \* position of the walker / orchestrator
    maxEntries,   \* options.maxEntries
    stack,        \* explicit DFS stack of pending directories
    files,        \* recorded files
    directories,  \* recorded directories
    warnings,     \* recorded warnings
    truncated,    \* the truncated field of the returned object
    cur,          \* directory whose listing is being iterated
    listed,       \* names the current listing has yielded so far
    treeEntries,  \* file-system entries that exist and are not ignored (root included)
    clean,        \* no stat/readdir failure and no special entry met so far
    budget,       \* entries the environment may still reveal (bounds the tree)
    totals,       \* summary.totals of the report (buildSummary)
    \* ---- analyzeProject (analyzers/projectAnalyzer) ----
    disk,         \* contents of the files of the tree, by relative path
    metrics,      \* what computeFileMetrics returned
    dependencies, \* what buildDependencyGraph returned
    structureGraph, \* what buildStructureGraph returned
    clones,       \* what findSymbolClones returned
    report,       \* what analyzeProject returned, or the error it threw
    \* ---- resolveSpecifier (analyzers/dependencyGraph) ----
    rsFileSet,    \* the file set (normalized relative paths)
    rsSource,     \* sourcePath
    rsSpecifier,  \* specifier
    rsResult,     \* what resolveSpecifier returned; NotCalled before the call
    \* ---- readSourceSnippet (server) ----
    snRoot,       \* rootPath of the request
    snFile,       \* filePath of the request
    snMaxBytes,   \* maxBytes of the request
    snResult,     \* the returned object or the thrown error; NotCalled before
    \* ---- a function called on its own (winnow, detectCodeSmells) ----
    fnArgs,       \* the arguments of the call
    fnResult,     \* [called, value]: whether it has returned, and what
    \* ---- the analysis page (public/app.js) ----
    issuesPanel,  \* the items of the issues panel, top to bottom
    \* ---- the diagram page (public/diagram.js) ----
    submitted,    \* the runAnalysis calls so far: [rootPath, overlaps]
    inFlight,     \* /api/analyze requests awaiting their response
    responded,    \* the /api/analyze responses so far, in order of arrival
    lastReport,   \* lastReport
    diagramData,  \* diagramData
    graphContainer, \* what the mind map in #diagram-graph renders, Null when empty
    detailPanel,  \* the message of the detail panel
    snippetCache, \* the keys of snippetCache
    snippetsInFlight \* /api/source requests awaiting their response

walkVars == <<pc, maxEntries, stack, files, directories, warnings, truncated,
              cur, listed, treeEntries, clean, budget, totals>>

analyzeVars == <<disk, metrics, dependencies, structureGraph, clones, report>>

resolveVars == <<rsFileSet, rsSource, rsSpecifier, rsResult>>

snippetVars == <<snRoot, snFile, snMaxBytes, snResult>>

fnVars == <<fnArgs, fnResult>>

diagramVars == <<submitted, inFlight, responded, lastReport, diagramData, graphContainer,
                 detailPanel, snippetCache, snippetsInFlight>>

pageVars == <<issuesPanel, diagramVars>>

nonWalkVars == <<analyzeVars, resolveVars, snippetVars, fnVars, pageVars>>
nonResolveVars == <<walkVars, analyzeVars, snippetVars, fnVars, pageVars>>
nonSnippetVars == <<walkVars, analyzeVars, resolveVars, fnVars, pageVars>>
nonFnVars == <<walkVars, analyzeVars, resolveVars, snippetVars, pageVars>>

vars == <<walkVars, analyzeVars, resolveVars, snippetVars, fnVars, pageVars>>

\* nothing has been rendered
PageIdle ==
    /\ issuesPanel = <<>>
    /\ submitted = <<>> /\ inFlight = {} /\ responded = <<>>
    /\ lastReport = [null |-> TRUE] /\ diagramData = [null |-> TRUE]
    /\ graphContainer = [null |-> TRUE] /\ detailPanel = ""
    /\ snippetCache = {} /\ snippetsInFlight = {}

\* no function is called on its own
FnIdle == fnArgs = <<>> /\ fnResult = [called |-> FALSE]

(***************************************************************************)
(* Bounds of the model.                                                    *)
(***************************************************************************)
MaxEntriesBound == 3   \* Init draws maxEntries from 1..MaxEntriesBound
MaxNodes == 4          \* entries the environment reveals below the root
MaxSegments == 3       \* segments of a requested relative filePath
MaxHashes == 5         \* k-gram hashes handed to winnow
MaxHashValue == 3      \* their values are drawn from 1..MaxHashValue
MaxWindow == 4         \* window sizes are drawn from 1..MaxWindow

Last(s) == s[Len(s)]
Front(s) == SubSeq(s, 1, Len(s) - 1)

(***************************************************************************)
(* Strings are sequences of one-character strings, so that concatenation,  *)
(* prefixes and path normalisation are computed as the code computes them. *)
(***************************************************************************)
Null == [null |-> TRUE]
NotCalled == [called |-> FALSE]

\* String.prototype.startsWith
StartsWith(s, prefix) ==
    /\ Len(prefix) <= Len(s)
    /\ SubSeq(s, 1, Len(prefix)) = prefix

\* String.prototype.split("/")
RECURSIVE SplitSlash(_)
SplitSlash(s) ==
    IF s = <<>> THEN << <<>> >>
    ELSE LET rest == SplitSlash(Tail(s)) IN
         IF Head(s) = "/" THEN << <<>> >> \o rest
         ELSE << <<Head(s)>> \o Head(rest) >> \o Tail(rest)

\* Array.prototype.join("/")
RECURSIVE JoinSlash(_)
JoinSlash(segs) ==
    IF segs = <<>> THEN <<>>
    ELSE IF Len(segs) = 1 THEN Head(segs)
    ELSE Head(segs) \o <<"/">> \o JoinSlash(Tail(segs))

\* node's normalizeString: drops empty and "." segments, resolves ".."
RECURSIVE NormalizeSegments(_, _, _)
NormalizeSegments(segs, acc, allowAboveRoot) ==
    IF segs = <<>> THEN acc
    ELSE LET h == Head(segs) IN
         IF h = <<>> \/ h = <<".">>
         THEN NormalizeSegments(Tail(segs), acc, allowAboveRoot)
         ELSE IF h = <<".", ".">>
         THEN IF acc # <<>> /\ Last(acc) # <<".", ".">>
              THEN NormalizeSegments(Tail(segs), Front(acc), allowAboveRoot)
              ELSE IF allowAboveRoot
              THEN NormalizeSegments(Tail(segs), Append(acc, h), allowAboveRoot)
              ELSE NormalizeSegments(Tail(segs), acc, allowAboveRoot)
         ELSE NormalizeSegments(Tail(segs), Append(acc, h), allowAboveRoot)

\* path.posix.normalize
PosixNormalize(p) ==
    LET Finish(body, isAbsolute, trailingSeparator) ==
          IF body = <<>>
          THEN IF isAbsolute THEN <<"/">>
               ELSE IF trailingSeparator THEN <<".", "/">> ELSE <<".">>
          ELSE (IF isAbsolute THEN <<"/">> ELSE <<>>)
               \o body \o (IF trailingSeparator THEN <<"/">> ELSE <<>>)
    IN IF p = <<>> THEN <<".">>
       ELSE Finish(JoinSlash(NormalizeSegments(SplitSlash(p), <<>>, Head(p) # "/")),
                   Head(p) = "/", Last(p) = "/")

\* path.posix.join of two arguments: the non-empty ones joined by "/",
\* then normalized
PosixJoin(a, b) ==
    PosixNormalize(IF a = <<>> THEN b
                   ELSE IF b = <<>> THEN a
                   ELSE a \o <<"/">> \o b)

\* path.posix.dirname of a path without trailing slash
PosixDirname(p) ==
    LET slashes == {i \in 1..Len(p) : p[i] = "/"} IN
    IF slashes = {} THEN <<".">>
    ELSE LET last == CHOOSE i \in slashes : \A j \in slashes : j <= i IN
         IF last = 1 THEN <<"/">> ELSE SubSeq(p, 1, last - 1)

\* path.extname of a file name
Extname(name) ==
    LET dots == {i \in 1..Len(name) : name[i] = "."} IN
    IF dots = {} THEN <<>>
    ELSE LET last == CHOOSE i \in dots : \A j \in dots : j <= i IN
         IF last = 1 THEN <<>> ELSE SubSeq(name, last, Len(name))

\* path.basename of a normalized path
Basename(p) == Last(SplitSlash(p))

UpperToLower ==
    [c \in {"A", "B", "C", "D", "E", "F", "G", "H", "I", "J", "K", "L", "M", "N",
            "O", "P", "Q", "R", "S", "T", "U", "V", "W", "X", "Y", "Z"} |->
        CASE c = "A" -> "a" [] c = "B" -> "b" [] c = "C" -> "c" [] c = "D" -> "d"
          [] c = "E" -> "e" [] c = "F" -> "f" [] c = "G" -> "g" [] c = "H" -> "h"
          [] c = "I" -> "i" [] c = "J" -> "j" [] c = "K" -> "k" [] c = "L" -> "l"
          [] c = "M" -> "m" [] c = "N" -> "n" [] c = "O" -> "o" [] c = "P" -> "p"
          [] c = "Q" -> "q" [] c = "R" -> "r" [] c = "S" -> "s" [] c = "T" -> "t"
          [] c = "U" -> "u" [] c = "V" -> "v" [] c = "W" -> "w" [] c = "X" -> "x"
          [] c = "Y" -> "y" [] c = "Z" -> "z"]

\* \w of the regular expressions
WordChars ==
    DOMAIN UpperToLower
    \cup {UpperToLower[c] : c \in DOMAIN UpperToLower}
    \cup {"0", "1", "2", "3", "4", "5", "6", "7", "8", "9", "_"}

\* String.prototype.toLowerCase
ToLowerCase(str) ==
    [i \in 1..Len(str) |->
        IF str[i] \in DOMAIN UpperToLower THEN UpperToLower[str[i]] ELSE str[i]]

\* a sequence of characters as one TLA+ string (for readable ids)
RECURSIVE Text(_)
Text(chars) == IF chars = <<>> THEN "" ELSE Head(chars) \o Text(Tail(chars))

(***************************************************************************)
(* collectEntries                                                          *)
(***************************************************************************)
DEFAULT_IGNORED_DIRECTORIES ==
    { <<".", "g", "i", "t">>,
      <<".", "h", "g">>,
      <<".", "s", "v", "n">>,
      <<"n", "o", "d", "e", "_", "m", "o", "d", "u", "l", "e", "s">>,
      <<"v", "e", "n", "d", "o", "r">>,
      <<"d", "i", "s", "t">>,
      <<"b", "u", "i", "l", "d">>,
      <<".", "c", "a", "c", "h", "e">>,
      <<".", "n", "e", "x", "t">>,
      <<".", "n", "u", "x", "t">>,
      <<".", "D", "S", "_", "S", "t", "o", "r", "e">>,
      <<".", "i", "d", "e", "a">>,
      <<".", "v", "s", "c", "o", "d", "e">>,
      <<"c", "o", "v", "e", "r", "a", "g", "e">>,
      <<"i", "o", "s", "/", "P", "o", "d", "s">>,
      <<"_", "_", "p", "y", "c", "a", "c", "h", "e", "_", "_">> }
DEFAULT_IGNORED_FILES == { <<".", "D", "S", "_", "S", "t", "o", "r", "e">>,
                            <<"T", "h", "u", "m", "b", "s", ".", "d", "b">> }
DefaultMaxEntries == 2000

\* names a directory listing may yield: two ordinary names, an ignored
\* directory name, an ignored file name, a name in both ignore sets
EntryNames ==
    { <<"a", ".", "j", "s">>,
      <<"b">>,
      <<"n", "o", "d", "e", "_", "m", "o", "d", "u", "l", "e", "s">>,
      <<"T", "h", "u", "m", "b", "s", ".", "d", "b">>,
      <<".", "D", "S", "_", "S", "t", "o", "r", "e">> }
\* Dirent types: isDirectory(), isFile(), isSymbolicLink(), none of them
EntryTypes == {"dir", "file", "symlink", "other"}
\* stats.size of the files of the tree
StatSize == 4096

RootPath == <<".">>
NoDir == [relativePath |-> RootPath, depth |-> 0]
NoTotals ==
    [directories |-> 0, files |-> 0, truncated |-> FALSE, walkDurationMs |-> 0,
     set |-> FALSE]

\* the error analyzeProject rejects with
Rejected(message) == [rejected |-> TRUE, error |-> message]

Warning(type, path) == [type |-> type, path |-> path]

\* directories.length + files.length
EntryCount == Len(directories) + Len(files)

WalkInit(maxSet, nodes) ==
    /\ pc = "start"
    /\ maxEntries \in maxSet
    /\ budget = nodes
    /\ stack = <<>>
    /\ files = <<>>
    /\ directories = <<>>
    /\ warnings = <<>>
    /\ truncated = FALSE
    /\ cur = NoDir
    /\ listed = {}
    /\ treeEntries = 0
    /\ clean = TRUE
    /\ totals = NoTotals

\* lines 282-290: stat the root, throw unless it is a directory
CollectStart ==
    /\ pc = "start"
    /\ \E rootStat \in {"dir", "file", "missing"} :
          IF rootStat # "dir"
          THEN /\ pc' = "threw"
               /\ report' = Rejected("Path is not a directory")
               /\ UNCHANGED <<stack, treeEntries>>
          ELSE /\ pc' = "loop"
               /\ stack' = <<[relativePath |-> RootPath, depth |-> 0]>>
               /\ treeEntries' = 1
               /\ UNCHANGED report
    /\ UNCHANGED <<maxEntries, files, directories, warnings, truncated, cur,
                   listed, clean, budget, totals>>
    /\ UNCHANGED <<disk, metrics, dependencies, structureGraph, clones,
                   resolveVars, snippetVars, fnVars, pageVars>>

\* lines 292-315: pop a directory, stat it, record it, list it
PopDirectory ==
    /\ pc = "loop"
    /\ stack # <<>>
    /\ LET current == Last(stack) IN
       \E statOk \in BOOLEAN, readOk \in BOOLEAN :
          /\ stack' = Front(stack)
          /\ IF ~statOk
             THEN /\ warnings' = Append(warnings, Warning("stat-error", current.relativePath))
                  /\ clean' = FALSE
                  /\ UNCHANGED <<directories, cur, listed, pc>>
             ELSE /\ directories' = Append(directories,
                                      [path |-> current.relativePath,
                                       depth |-> current.depth])
                  /\ IF ~readOk
                     THEN /\ warnings' = Append(warnings,
                                           Warning("read-error", current.relativePath))
                          /\ clean' = FALSE
                          /\ UNCHANGED <<cur, listed, pc>>
                     ELSE /\ pc' = "scan"
                          /\ cur' = current
                          /\ listed' = {}
                          /\ UNCHANGED <<warnings, clean>>
    /\ UNCHANGED <<maxEntries, files, truncated, treeEntries, budget, totals>>
    /\ UNCHANGED nonWalkVars

\* the limit test of lines 330 and 356
LimitReached == EntryCount >= maxEntries

\* the limit test of line 356, made after the file has been pushed
LimitReachedAfterPush == EntryCount + 1 >= maxEntries

\* lines 317-361: one iteration of the for loop over the listing
VisitEntry ==
    /\ pc = "scan"
    /\ budget > 0
    /\ \E name \in EntryNames \ listed, type \in EntryTypes, statOk \in BOOLEAN :
          LET entryRelativePath == PosixJoin(cur.relativePath, name) IN
          /\ listed' = listed \cup {name}
          /\ budget' = budget - 1
          /\ IF name \in DEFAULT_IGNORED_FILES
             THEN UNCHANGED <<stack, files, warnings, truncated, pc, treeEntries, clean>>
             ELSE IF type = "dir"
             THEN IF name \in DEFAULT_IGNORED_DIRECTORIES
                  THEN UNCHANGED <<stack, files, warnings, truncated, pc, treeEntries, clean>>
                  ELSE /\ treeEntries' = treeEntries + 1
                       /\ IF LimitReached
                          THEN /\ warnings' = Append(warnings,
                                                Warning("limit-reached", entryRelativePath))
                               /\ truncated' = TRUE
                               /\ pc' = "returned"
                               /\ UNCHANGED <<stack, files, clean>>
                          ELSE /\ stack' = Append(stack, [relativePath |-> entryRelativePath,
                                                          depth |-> cur.depth + 1])
                               /\ UNCHANGED <<files, warnings, truncated, pc, clean>>
             ELSE IF type \in {"file", "symlink"}
             THEN /\ treeEntries' = treeEntries + 1
                  /\ IF ~statOk
                     THEN /\ warnings' = Append(warnings,
                                           Warning("stat-error", entryRelativePath))
                          /\ clean' = FALSE
                          /\ UNCHANGED <<stack, files, truncated, pc>>
                     ELSE /\ files' = Append(files,
                                        [path |-> entryRelativePath, name |-> name,
                                         ext |-> ToLowerCase(Extname(name)),
                                         size |-> StatSize,
                                         isSymbolicLink |-> (type = "symlink"),
                                         depth |-> cur.depth])
                          /\ IF LimitReachedAfterPush
                             THEN /\ warnings' = Append(warnings,
                                                   Warning("limit-reached", entryRelativePath))
                                  /\ truncated' = TRUE
                                  /\ pc' = "returned"
                                  /\ UNCHANGED <<stack, clean>>
                             ELSE UNCHANGED <<stack, warnings, truncated, pc, clean>>
             ELSE /\ treeEntries' = treeEntries + 1
                  /\ clean' = FALSE
                  /\ UNCHANGED <<stack, files, warnings, truncated, pc>>
    /\ UNCHANGED <<maxEntries, directories, cur, totals>>
    /\ UNCHANGED nonWalkVars

\* line 361: the listing is exhausted, back to the while loop
EndOfListing ==
    /\ pc = "scan"
    /\ pc' = "loop"
    /\ UNCHANGED <<maxEntries, stack, files, directories, warnings, truncated,
                   cur, listed, treeEntries, clean, budget, totals>>
    /\ UNCHANGED nonWalkVars

\* a walker that derives truncated from the count when the stack runs empty
ReturnCompleteByCount ==
    /\ pc = "loop"
    /\ stack = <<>>
    /\ pc' = "returned"
    /\ truncated' = (EntryCount >= maxEntries)
    /\ UNCHANGED <<maxEntries, stack, files, directories, warnings, cur, listed,
                   treeEntries, clean, budget, totals>>
    /\ UNCHANGED nonWalkVars

\* line 364: the stack is empty
ReturnComplete ==
    /\ pc = "loop"
    /\ stack = <<>>
    /\ pc' = "returned"
    /\ truncated' = FALSE
    /\ UNCHANGED <<maxEntries, stack, files, directories, warnings, cur, listed,
                   treeEntries, clean, budget, totals>>
    /\ UNCHANGED nonWalkVars

WalkIdle ==
    /\ pc = "idle"
    /\ maxEntries = DefaultMaxEntries
    /\ stack = <<>>
    /\ files = <<>>
    /\ directories = <<>>
    /\ warnings = <<>>
    /\ truncated = FALSE
    /\ cur = NoDir
    /\ listed = {}
    /\ treeEntries = 0
    /\ clean = TRUE
    /\ budget = 0
    /\ totals = NoTotals
    /\ disk = <<>>
    /\ metrics = NotCalled
    /\ dependencies = NotCalled
    /\ structureGraph = NotCalled
    /\ clones = NotCalled
    /\ report = NotCalled

(***************************************************************************)
(* resolveSpecifier                                                        *)
(***************************************************************************)
RESOLUTION_EXTENSIONS ==
    << <<".", "j", "s">>, <<".", "j", "s", "x">>, <<".", "t", "s">>,
       <<".", "t", "s", "x">>, <<".", "m", "j", "s">>, <<".", "c", "j", "s">>,
       <<".", "j", "s", "o", "n">> >>

Local(target) == [kind |-> "local", target |-> target]

\* the first element of the candidate list that the file set holds
RECURSIVE FirstInSet(_, _)
FirstInSet(candidates, fileSet) ==
    IF candidates = <<>> THEN Null
    ELSE IF Head(candidates) \in fileSet THEN Local(Head(candidates))
    ELSE FirstInSet(Tail(candidates), fileSet)

\* line 530
WithExtensions(potentialBase) ==
    [i \in 1..Len(RESOLUTION_EXTENSIONS) |-> potentialBase \o RESOLUTION_EXTENSIONS[i]]

\* line 537
IndexCandidates(potentialBase) ==
    [i \in 1..Len(RESOLUTION_EXTENSIONS) |->
        PosixJoin(potentialBase, <<"i", "n", "d", "e", "x">> \o RESOLUTION_EXTENSIONS[i])]

\* line 519 and isRelativeSpecifier
IsRelativeSpecifier(specifier) ==
    specifier # <<>> /\ (StartsWith(specifier, <<".">>) \/ StartsWith(specifier, <<"/">>))

\* lines 523-524
PotentialBase(specifier, sourcePath) == PosixJoin(PosixDirname(sourcePath), specifier)

\* a resolver that probes path/index.{ext} before path.{ext}
ResolveSpecifierIndexFirst(specifier, sourcePath, fileSet) ==
    LET Probe(potentialBase) ==
          IF potentialBase \in fileSet THEN Local(potentialBase)
          ELSE LET Second(byIndex) ==
                     IF byIndex # Null THEN byIndex
                     ELSE FirstInSet(WithExtensions(potentialBase), fileSet)
               IN Second(FirstInSet(IndexCandidates(potentialBase), fileSet))
    IN IF ~StartsWith(specifier, <<".">>) /\ ~StartsWith(specifier, <<"/">>)
       THEN Null
       ELSE Probe(PotentialBase(specifier, sourcePath))

ResolveSpecifier(specifier, sourcePath, fileSet) ==
    LET Probe(potentialBase) ==
          IF potentialBase \in fileSet THEN Local(potentialBase)
          ELSE LET Second(byExtension) ==
                     IF byExtension # Null THEN byExtension
                     ELSE FirstInSet(IndexCandidates(potentialBase), fileSet)
               IN Second(FirstInSet(WithExtensions(potentialBase), fileSet))
    IN IF ~StartsWith(specifier, <<".">>) /\ ~StartsWith(specifier, <<"/">>)
       THEN Null
       ELSE Probe(PotentialBase(specifier, sourcePath))

\* the files a project may hold, as normalized relative paths
RsFileUniverse ==
    { <<"x">>,
      <<"x", ".", "j", "s">>,
      <<"x", ".", "t", "s">>,
      <<"x", ".", "j", "s", "o", "n">>,
      <<"x", ".", "t", "s", ".", "j", "s">>,
      <<"x", "/", "i", "n", "d", "e", "x", ".", "j", "s">>,
      <<"x", "/", "i", "n", "d", "e", "x", ".", "t", "s">>,
      <<"d", "/", "x", ".", "j", "s", "x">>,
      <<"d", "/", "x", "/", "i", "n", "d", "e", "x", ".", "j", "s">>,
      <<"i", "n", "d", "e", "x", ".", "c", "j", "s">> }

RsSources == { <<"m", ".", "j", "s">>, <<"d", "/", "m", ".", "j", "s">> }

RsSpecifiers ==
    { <<".", "/", "x">>, <<".", ".", "/", "x">>, <<".", "/", "x", ".", "t", "s">>,
      <<".", "/", "x", "/">>, <<".">>, <<"/", "x">>, <<"x">>, <<".", "/", "d", "/", "x">> }

ResolveInit ==
    /\ rsFileSet \in SUBSET RsFileUniverse
    /\ rsSource \in RsSources
    /\ rsSpecifier \in RsSpecifiers
    /\ rsResult = NotCalled

ResolveIdle ==
    /\ rsFileSet = {}
    /\ rsSource = <<>>
    /\ rsSpecifier = <<>>
    /\ rsResult = NotCalled

\* one call of resolveSpecifier(specifier, sourcePath, fileSet)
Resolve ==
    /\ rsResult = NotCalled
    /\ rsResult' = ResolveSpecifier(rsSpecifier, rsSource, rsFileSet)
    /\ UNCHANGED <<rsFileSet, rsSource, rsSpecifier>>
    /\ UNCHANGED nonResolveVars

(***************************************************************************)
(* readSourceSnippet                                                       *)
(***************************************************************************)
\* process.cwd() of the server
Cwd == <<"/", "w">>

\* path.resolve of two arguments on a POSIX host: the rightmost absolute
\* argument wins, the result is normalized and carries no trailing slash
PathResolve(from, to) ==
    LET joined == IF StartsWith(to, <<"/">>) THEN to
                  ELSE IF to = <<>> THEN from
                  ELSE from \o <<"/">> \o to
        absolute == IF StartsWith(joined, <<"/">>) THEN joined
                    ELSE Cwd \o <<"/">> \o joined
    IN <<"/">> \o JoinSlash(NormalizeSegments(SplitSlash(absolute), <<>>, FALSE))

KiB == 1024

\* line 196
SnippetLimit(maxBytes) ==
    LET capped == IF maxBytes < 512 * KiB THEN maxBytes ELSE 512 * KiB
    IN IF capped > KiB THEN capped ELSE KiB

HttpError(statusCode) == [outcome |-> "error", statusCode |-> statusCode]
Enoent == [outcome |-> "error", code |-> "ENOENT"]

\* what fs.statSync may show at a path, with the sizes a file may have
StatResults ==
    {[kind |-> "missing", size |-> 0], [kind |-> "dir", size |-> 0]}
        \cup {[kind |-> "file", size |-> n] : n \in {0, 2 * KiB, 600 * KiB}}

\* lines 179-208, for what fs.statSync shows at the resolved path
ReadSourceSnippet(rootPath, relativePath, maxBytes, stats) ==
    LET absRoot == PathResolve(Cwd, rootPath)
        absFile == PathResolve(absRoot, relativePath)
    IN IF ~StartsWith(absFile, absRoot) THEN HttpError(403)
       ELSE IF stats.kind = "missing" THEN Enoent
       ELSE IF stats.kind # "file" THEN HttpError(400)
       ELSE LET limit == SnippetLimit(maxBytes)
                size == IF limit < stats.size THEN limit ELSE stats.size
            IN [outcome |-> "content", path |-> relativePath, size |-> stats.size,
                read |-> absFile, bytes |-> size, truncated |-> (stats.size > size)]

SnSegments == { <<".", ".">>, <<"x">>, <<"b">>, <<"b", "c">> }
SnRelativePaths ==
    { JoinSlash(segs) : segs \in UNION {[1..n -> SnSegments] : n \in 1..MaxSegments} }
SnAbsolutePaths ==
    { <<"/", "a", "/", "b", "/", "x">>, <<"/", "a", "/", "b", "c", "/", "x">>,
      <<"/", "e", "t", "c">> }
SnRoots == { <<"/", "a", "/", "b">>, <<"/", "a", "/", "b", "/">>, <<"a">> }

SnippetInit ==
    /\ snRoot \in SnRoots
    /\ snFile \in SnRelativePaths \cup SnAbsolutePaths
    /\ snMaxBytes \in {1, 200 * KiB, 1024 * KiB}
    /\ snResult = NotCalled

SnippetIdle ==
    /\ snRoot = <<>>
    /\ snFile = <<>>
    /\ snMaxBytes = 0
    /\ snResult = NotCalled

\* one call of readSourceSnippet(rootPath, filePath, maxBytes)
ReadSnippet ==
    /\ snResult = NotCalled
    /\ \E stats \in StatResults :
          snResult' = ReadSourceSnippet(snRoot, snFile, snMaxBytes, stats)
    /\ UNCHANGED <<snRoot, snFile, snMaxBytes>>
    /\ UNCHANGED nonSnippetVars

(***************************************************************************)
(* File contents.  A file is a sequence of top-level statements; its text  *)
(* is their sources joined by line feeds.  A statement records what the    *)
(* parser (@babel/parser) makes of it: the type of its AST node, the       *)
(* declared name, whether and how it is exported, and for an import the    *)
(* specifier and the imported names.  `lead` is the source in front of the *)
(* node a symbol is cut from, `text` the source of that node.              *)
(***************************************************************************)
ExportLead(exported) ==
    CASE exported = "named"   -> <<"e", "x", "p", "o", "r", "t", " ">>
      [] exported = "default" -> <<"e", "x", "p", "o", "r", "t", " ", "d", "e", "f", "a", "u", "l", "t", " ">>
      [] OTHER                -> <<>>

Statement(type, name, exported, lead, text) ==
    [type |-> type, name |-> name, exported |-> exported, init |-> "",
     specifier |-> <<>>, names |-> <<>>, hasNamespace |-> FALSE,
     lead |-> lead, text |-> text]

\* function name(){...}, possibly exported; name <<>> for an anonymous default
FunctionDecl(name, exported, body) ==
    Statement("FunctionDeclaration", name, exported, ExportLead(exported),
              <<"f", "u", "n", "c", "t", "i", "o", "n", " ">> \o name \o body)

\* class name {...}, possibly exported
ClassDecl(name, exported, body) ==
    Statement("ClassDeclaration", name, exported, ExportLead(exported),
              <<"c", "l", "a", "s", "s", " ">> \o name \o body)

\* const name = init, possibly exported; initType is the type of the init node
VariableDecl(name, exported, initType, initText) ==
    [Statement("VariableDeclaration", name, exported,
               ExportLead(exported) \o <<"c", "o", "n", "s", "t", " ">> \o name \o <<" ", "=", " ">>, initText)
       EXCEPT !.init = initType]

\* export default <expression>
ExportDefaultExpr(initType, initText) ==
    [Statement("ExportDefaultDeclaration", <<>>, "default", ExportLead("default"),
               initText) EXCEPT !.init = initType]

RECURSIVE JoinComma(_)
JoinComma(names) ==
    IF names = <<>> THEN <<>>
    ELSE LET n == IF Head(names) = <<"d", "e", "f", "a", "u", "l", "t">> THEN <<"d", "e", "f", "a", "u", "l", "t", " ", "a", "s", " ", "d">> ELSE Head(names) IN
         IF Len(names) = 1 THEN n ELSE n \o <<",", " ">> \o JoinComma(Tail(names))

\* import {names} from 'specifier'  /  import * as n from 'specifier'
ImportDecl(names, hasNamespace, specifier) ==
    [Statement("ImportDeclaration", <<>>, "no", <<>>,
               <<"i", "m", "p", "o", "r", "t", " ">>
               \o (IF hasNamespace THEN <<"*", " ", "a", "s", " ", "n">> ELSE <<"{">> \o JoinComma(names) \o <<"}">>)
               \o <<" ", "f", "r", "o", "m", " ", "'">> \o specifier \o <<"'">>)
       EXCEPT !.specifier = specifier, !.names = names, !.hasNamespace = hasNamespace]

\* require('specifier') as an expression statement
RequireCall(specifier) ==
    [Statement("ExpressionStatement", <<>>, "no", <<>>,
               <<"r", "e", "q", "u", "i", "r", "e", "(", "'">> \o specifier \o <<"'", ")">>)
       EXCEPT !.specifier = specifier]

\* from module import x, a line of a Python file
PyFromImport(module) ==
    [Statement("PyFromImport", <<>>, "no", <<>>,
               <<"f", "r", "o", "m", " ">> \o module \o <<" ", "i", "m", "p", "o", "r", "t", " ", "x">>)
       EXCEPT !.specifier = module]

\* any other line of source; type "Unparseable" makes the parser throw
Line(type, text) == Statement(type, <<>>, "no", <<>>, text)

Source(stmt) == stmt.lead \o stmt.text

RECURSIVE ContentText(_)
ContentText(stmts) ==
    IF stmts = <<>> THEN <<>>
    ELSE IF Len(stmts) = 1 THEN Source(stmts[1])
    ELSE Source(Head(stmts)) \o <<"\n">> \o ContentText(Tail(stmts))

\* what fs.readFileSync yields for a path: the statements, or a failure
Unreadable == [readable |-> FALSE, stmts |-> <<>>]
Readable(stmts) == [readable |-> TRUE, stmts |-> stmts]
ReadFile(path) == IF path \in DOMAIN disk THEN disk[path] ELSE Unreadable

(***************************************************************************)
(* Symbol extraction (analyzers/structureGraph, analyzers/language).       *)
(***************************************************************************)
MAX_FILE_BYTES == 256 * KiB
MAX_SYMBOL_BYTES == 128 * KiB

DetectLanguage(ext) ==
    LET e == Text(ToLowerCase(ext)) IN
    CASE e \in {".js", ".jsx", ".mjs", ".cjs"} -> "JavaScript"
      [] e \in {".ts", ".tsx"} -> "TypeScript"
      [] e = ".json" -> "JSON"     [] e = ".py" -> "Python"
      [] e = ".rb" -> "Ruby"       [] e = ".java" -> "Java"
      [] e = ".kt" -> "Kotlin"     [] e = ".swift" -> "Swift"
      [] e = ".go" -> "Go"         [] e = ".rs" -> "Rust"
      [] e = ".php" -> "PHP"       [] e = ".cs" -> "C#"
      [] e \in {".cpp", ".cc"} -> "C++"
      [] e = ".c" -> "C"           [] e = ".h" -> "C/C++ Header"
      [] e = ".hpp" -> "C++ Header" [] e = ".sql" -> "SQL"
      [] e \in {".yml", ".yaml"} -> "YAML"
      [] e = ".toml" -> "TOML"     [] e = ".md" -> "Markdown"
      [] e = ".vue" -> "Vue"       [] e = ".svelte" -> "Svelte"
      [] e = ".scss" -> "SCSS"     [] e = ".css" -> "CSS"
      [] e = ".html" -> "HTML"     [] e = ".xml" -> "XML"
      [] e \in {".sh", ".bash", ".zsh"} -> "Shell"
      [] e = ".ps1" -> "PowerShell"
      [] OTHER -> "Unknown"

\* value.replace(/\\/g, "/")
NormalizePath(value) ==
    [i \in 1..Len(value) |-> IF value[i] = "\\" THEN "/" ELSE value[i]]

\* buildLineOffsets(content).length
LineCount(text) == 1 + Cardinality({i \in 1..Len(text) : text[i] = "\n"})

\* !content || !content.trim()
IsBlank(text) == \A i \in 1..Len(text) : text[i] \in {" ", "\t", "\n", "\r"}

CreateFallbackSymbol(text, relativePath, language) ==
    LET Symbol(normalizedPath) ==
          << [id |-> "file:" \o Text(normalizedPath) \o "#__file__",
              fileId |-> "file:" \o Text(normalizedPath),
              name |-> Basename(normalizedPath),
              kind |-> "file",
              path |-> normalizedPath,
              language |-> language,
              startLine |-> 1,
              endLine |-> LineCount(text),
              text |-> SubSeq(text, 1, IF Len(text) < MAX_SYMBOL_BYTES
                                       THEN Len(text) ELSE MAX_SYMBOL_BYTES)] >>
    IN IF IsBlank(text) THEN <<>> ELSE Symbol(NormalizePath(relativePath))

ClassifySymbol(name, fallback) ==
    IF name = <<>> THEN fallback
    ELSE IF fallback # "class" /\ name[1] \in DOMAIN UpperToLower THEN "component"
    ELSE fallback

\* keeps, for each id, the entry met first, whatever the lengths
DedupeByIdKeepFirst(unique, entries) ==
    unique \o SelectSeq(entries, LAMBDA entry :
                 /\ ~\E i \in 1..Len(unique) : unique[i].id = entry.id
                 /\ entry = entries[CHOOSE k \in 1..Len(entries) :
                                      /\ entries[k].id = entry.id
                                      /\ \A m \in 1..(k - 1) : entries[m].id # entry.id])

\* dedupeById: `unique` is the list built so far
RECURSIVE DedupeById(_, _)
DedupeById(unique, entries) ==
    IF entries = <<>> THEN unique
    ELSE LET entry == Head(entries)
             existing == {i \in 1..Len(unique) : unique[i].id = entry.id}
         IN IF existing = {}
            THEN DedupeById(Append(unique, entry), Tail(entries))
            ELSE LET existingIndex == CHOOSE i \in existing : TRUE IN
                 DedupeById(IF Len(entry.text) > Len(unique[existingIndex].text)
                            THEN [unique EXCEPT ![existingIndex] = entry]
                            ELSE unique,
                            Tail(entries))

\* the bindings the statements register in the program scope, in source
\* order, when @babel/traverse crawls the scope
RECURSIVE Bindings(_)
Bindings(stmts) ==
    IF stmts = <<>> THEN <<>>
    ELSE LET stmt == Head(stmts)
             Bind(name, kind) == [name |-> name, kind |-> kind]
             own ==
               CASE stmt.type = "FunctionDeclaration" /\ stmt.name # <<>> ->
                      <<Bind(stmt.name, "hoisted")>>
                 [] stmt.type = "ClassDeclaration" /\ stmt.name # <<>> ->
                      <<Bind(stmt.name, "let")>>
                 [] stmt.type = "VariableDeclaration" ->
                      <<Bind(stmt.name, "const")>>
                 [] stmt.type = "ImportDeclaration" /\ stmt.hasNamespace ->
                      <<Bind(<<"n">>, "module")>>
                 [] stmt.type = "ImportDeclaration" /\ ~stmt.hasNamespace ->
                      [i \in 1..Len(stmt.names) |->
                          Bind(IF stmt.names[i] = <<"d", "e", "f", "a", "u", "l", "t">> THEN <<"d">>
                               ELSE stmt.names[i], "module")]
                 [] OTHER -> <<>>
         IN own \o Bindings(Tail(stmts))

\* babelParser.parse throws (errorRecovery does not apply)
ParseThrows(stmts) == \E i \in 1..Len(stmts) : stmts[i].type = "Unparseable"

\* traverse throws 'Duplicate declaration' while registering the bindings:
\* the parser, run with errorRecovery, has let the redeclaration through
TraverseThrows(stmts) ==
    LET all == Bindings(stmts) IN
    \E i, j \in 1..Len(all) :
        /\ i < j
        /\ all[i].name = all[j].name
        /\ \/ all[j].kind = "let"
           \/ all[i].kind \in {"let", "const", "module"}

Returns(symbols) == [threw |-> FALSE, symbols |-> symbols]
Throws == [threw |-> TRUE, symbols |-> <<>>]

ExtractSymbolsFromContent(stmts, relativePath, language) ==
    LET \* pushEntry for the node of statement i
        PushEntry(i, name, kind, normalizedPath, startLine) ==
          << [id |-> kind \o ":" \o normalizedPath \o "#" \o Text(name),
              fileId |-> "file:" \o normalizedPath,
              name |-> name,
              kind |-> kind,
              path |-> NormalizePath(relativePath),
              language |-> language,
              startLine |-> startLine,
              endLine |-> startLine + LineCount(stmts[i].text) - 1,
              text |-> stmts[i].text] >>
        \* the fallback kind of the visitor that pushes for statement i
        Visitor(i) ==
          CASE stmts[i].type = "ClassDeclaration" /\ stmts[i].exported = "no" -> "class"
            [] stmts[i].type = "FunctionDeclaration"
               /\ stmts[i].exported \in {"no", "default"} -> "function"
            [] stmts[i].type = "ExportDefaultDeclaration"
               /\ stmts[i].init \in {"ArrowFunctionExpression", "FunctionExpression"} ->
                 "function"
            [] OTHER -> "none"
        RECURSIVE Entries(_)
        Entries(i) ==
          IF i > Len(stmts) THEN <<>>
          ELSE (IF Visitor(i) = "none" THEN <<>>
                ELSE PushEntry(i,
                       IF stmts[i].name # <<>> THEN stmts[i].name ELSE <<"d", "e", "f", "a", "u", "l", "t">>,
                       ClassifySymbol(IF stmts[i].name # <<>> THEN stmts[i].name
                                      ELSE <<"d", "e", "f", "a", "u", "l", "t">>, Visitor(i)),
                       Text(NormalizePath(relativePath)),
                       LineCount(ContentText(SubSeq(stmts, 1, i - 1))
                                 \o (IF i > 1 THEN <<"\n">> ELSE <<>>)
                                 \o stmts[i].lead)))
               \o Entries(i + 1)
        Result(entries, fallback) ==
          IF language \notin {"JavaScript", "TypeScript"} THEN Returns(fallback)
          ELSE IF ParseThrows(stmts) THEN Returns(fallback)
          ELSE IF TraverseThrows(stmts) THEN Throws
          ELSE IF entries = <<>> THEN Returns(fallback)
          ELSE Returns(DedupeById(<<>>, entries))
    IN Result(Entries(1),
              CreateFallbackSymbol(ContentText(stmts), relativePath, language))

ExtractSymbolsForFile(file, language) ==
    IF file.size > MAX_FILE_BYTES \/ ~ReadFile(file.path).readable
    THEN Returns(<<>>)
    ELSE ExtractSymbolsFromContent(ReadFile(file.path).stmts, file.path, language)

(***************************************************************************)
(* buildDependencyGraph (analyzers/dependencyGraph).                       *)
(***************************************************************************)
JS_EXTENSIONS == { <<".", "j", "s">>, <<".", "j", "s", "x">>, <<".", "t", "s">>, <<".", "t", "s", "x">>, <<".", "m", "j", "s">>, <<".", "c", "j", "s">> }

\* [...new Set(values)]: the first occurrences, in order
RECURSIVE Unique(_)
Unique(values) ==
    IF values = <<>> THEN <<>>
    ELSE LET front == Unique(Front(values)) IN
         IF \E i \in 1..Len(front) : front[i] = Last(values)
         THEN front ELSE Append(front, Last(values))

PY_EXTENSIONS == {<<".", "p", "y">>}

\* extractSpecifiers: what the regular expressions capture from the text
\* (no Go file is among the inputs)
ExtractSpecifiers(stmts, ext) ==
    LET Captured(types) ==
          LET hits == SelectSeq(stmts, LAMBDA stmt :
                          stmt.type \in types /\ stmt.specifier # <<>>)
          IN [i \in 1..Len(hits) |-> hits[i].specifier]
    IN IF ext \in JS_EXTENSIONS
       THEN Unique(Captured({"ImportDeclaration"}) \o Captured({"ExpressionStatement"}))
       ELSE IF ext \in PY_EXTENSIONS
       THEN Unique(Captured({"PyImport"}) \o Captured({"PyFromImport"}))
       ELSE <<>>

BuildDependencyGraph(fileList) ==
    LET Skipped(normalizedPath, reason) ==
          [edges |-> <<>>,
           unresolved |-> <<[source |-> normalizedPath, specifier |-> Null,
                             reason |-> reason]>>]
        \* the edges and unresolved entries of lines 432-449, given what
        \* resolveSpecifier returned for each specifier
        Linked(normalizedPath, specifiers, resolved) ==
          [edges |->
             [i \in 1..Len(specifiers) |->
                [source |-> normalizedPath,
                 target |-> IF resolved[i] # Null THEN resolved[i].target ELSE specifiers[i],
                 specifier |-> specifiers[i],
                 kind |-> IF resolved[i] # Null THEN resolved[i].kind ELSE "external"]],
           unresolved |->
             LET missed == SelectSeq([i \in 1..Len(specifiers) |-> i], LAMBDA i :
                               resolved[i] = Null /\ IsRelativeSpecifier(specifiers[i]))
             IN [k \in 1..Len(missed) |->
                   [source |-> normalizedPath, specifier |-> specifiers[missed[k]],
                    reason |-> "Could not resolve locally"]]]
        Inspect(file, normalizedPath, fileSet, specifiers) ==
          IF file.size > MAX_FILE_BYTES
          THEN Skipped(normalizedPath, "File too large to inspect for dependencies")
          ELSE IF ~ReadFile(file.path).readable
          THEN Skipped(normalizedPath, "Failed to read file")
          ELSE Linked(normalizedPath, specifiers,
                      [i \in 1..Len(specifiers) |->
                         ResolveSpecifier(specifiers[i], normalizedPath, fileSet)])
        Collect(perFile) ==
          LET Merge(before, next) ==
                [edges |-> before.edges \o next.edges,
                 unresolved |-> before.unresolved \o next.unresolved]
              all[i \in 0..Len(perFile)] ==
                IF i = 0 THEN [edges |-> <<>>, unresolved |-> <<>>]
                ELSE Merge(all[i - 1], perFile[i])
          IN all[Len(perFile)]
    IN Collect([i \in 1..Len(fileList) |->
                  Inspect(fileList[i], NormalizePath(fileList[i].path),
                          {NormalizePath(fileList[k].path) : k \in 1..Len(fileList)},
                          ExtractSpecifiers(ReadFile(fileList[i].path).stmts,
                                            fileList[i].ext))])

(***************************************************************************)
(* buildStructureGraph (analyzers/structureGraph).                         *)
(***************************************************************************)
\* the null id
NoId == ""

GetPackageNodeId(filePath) ==
    LET segments == SplitSlash(filePath) IN
    IF Len(segments) < 2 THEN NoId
    ELSE IF segments[1] = <<>> \/ StartsWith(segments[1], <<".">>) THEN NoId
    ELSE "package:" \o Text(segments[1])

\* extractExportsAndImportsForFile as buildStructureGraph uses it: a throw
\* of the traversal is caught by the caller and leaves both maps unset
ExtractExportsAndImportsForFile(file, language) ==
    LET read == ReadFile(file.path)
        stmts == read.stmts
        exporting == {i \in 1..Len(stmts) : stmts[i].exported # "no"}
        importing == SelectSeq(stmts, LAMBDA stmt :
                         stmt.type = "ImportDeclaration" /\ stmt.specifier # <<>>)
    IN IF \/ file.size > MAX_FILE_BYTES
          \/ ~read.readable
          \/ language \notin {"JavaScript", "TypeScript"}
          \/ ParseThrows(stmts)
          \/ TraverseThrows(stmts)
       THEN [exportNames |-> {}, imports |-> <<>>]
       ELSE [exportNames |->
               {<<"d", "e", "f", "a", "u", "l", "t">> : i \in {j \in exporting : stmts[j].exported = "default"}}
               \cup {stmts[i].name : i \in {j \in exporting :
                                             /\ stmts[j].exported = "named"
                                             /\ stmts[j].name # <<>>}},
             imports |->
               [i \in 1..Len(importing) |->
                  [specifier |-> importing[i].specifier,
                   names |-> {importing[i].names[k] : k \in 1..Len(importing[i].names)},
                   hasNamespace |-> importing[i].hasNamespace]]]

\* import edges emitted for every dependency edge, whatever its kind and
\* whether or not its endpoints are file nodes
ImportEdgesOfAnyKind(fileIds, dependencyEdges) ==
    [i \in 1..Len(dependencyEdges) |->
       [source |-> "file:" \o Text(NormalizePath(dependencyEdges[i].source)),
        target |-> "file:" \o Text(NormalizePath(dependencyEdges[i].target)),
        type |-> "import"]]

\* the import edges of lines 128-146, one per local dependency edge whose
\* endpoints are both file nodes
ImportEdges(fileIds, dependencyEdges) ==
    LET local == SelectSeq(dependencyEdges, LAMBDA dep :
                     /\ dep.kind = "local"
                     /\ "file:" \o Text(NormalizePath(dep.source)) \in fileIds
                     /\ "file:" \o Text(NormalizePath(dep.target)) \in fileIds)
    IN [i \in 1..Len(local) |->
          [source |-> "file:" \o Text(NormalizePath(local[i].source)),
           target |-> "file:" \o Text(NormalizePath(local[i].target)),
           type |-> "import"]]

\* the CallExpression nodes of a piece of source whose callee is an
\* Identifier: a word directly followed by "(" that is no keyword, no member
\* of an object and not the name a declaration introduces
CalledIdentifiers(text) ==
    LET Start(j) == CHOOSE i \in 1..j :
                      /\ \A k \in i..j : text[k] \in WordChars
                      /\ i = 1 \/ text[i - 1] \notin WordChars
        IsCall(j) ==
          /\ Text(SubSeq(text, Start(j), j))
               \notin {"if", "for", "while", "switch", "catch", "function", "return"}
          /\ ~(Start(j) > 1 /\ text[Start(j) - 1] = ".")
          /\ ~(Start(j) > 9 /\ SubSeq(text, Start(j) - 9, Start(j) - 1) = <<"f", "u", "n", "c", "t", "i", "o", "n", " ">>)
    IN {SubSeq(text, Start(j), j) :
          j \in {e \in 1..(Len(text) - 1) :
                   text[e] \in WordChars /\ text[e + 1] = "(" /\ IsCall(e)}}

\* extractCallsForFile: the {callerName, calleeName} pairs of a file
ExtractCallsForFile(file, language) ==
    LET \* getEnclosingTopLevelFunctionName for a call inside statement stmt;
        \* <<>> stands for null
        CallerName(stmt) ==
          CASE stmt.type = "FunctionDeclaration" /\ stmt.exported = "no" ->
                 (IF stmt.name # <<>> THEN stmt.name ELSE <<"d", "e", "f", "a", "u", "l", "t">>)
            [] stmt.type = "VariableDeclaration" /\ stmt.exported = "no"
               /\ stmt.init \in {"ArrowFunctionExpression", "FunctionExpression"} ->
                 stmt.name
            [] stmt.type = "ExportDefaultDeclaration"
               /\ stmt.init \in {"ArrowFunctionExpression", "FunctionExpression"} ->
                 <<"d", "e", "f", "a", "u", "l", "t">>
            [] OTHER -> <<>>
        Calls(stmts) ==
          UNION {{[callerName |-> CallerName(stmts[i]), calleeName |-> calleeName] :
                    calleeName \in CalledIdentifiers(stmts[i].text) \ {CallerName(stmts[i])}} :
                  i \in {k \in 1..Len(stmts) : CallerName(stmts[k]) # <<>>}}
    IN IF \/ file.size > MAX_FILE_BYTES
          \/ ~ReadFile(file.path).readable
          \/ language \notin {"JavaScript", "TypeScript"}
          \/ ParseThrows(ReadFile(file.path).stmts)
       THEN {}
       ELSE Calls(ReadFile(file.path).stmts)

\* lines 66-109 of buildStructureGraph for one scanned file: the callers the
\* calls of the file add to incomingCalls, by callee id
IncomingCallers(symbols, calls) ==
    LET named == {k \in 1..Len(symbols) : symbols[k].kind \in {"function", "component"}}
        Known(name) == \E k \in named : symbols[k].name = name
        \* functionSymbolIdsByName.get(name): the last symbol set under the name
        IdOf(name) == symbols[CHOOSE k \in named :
                                /\ symbols[k].name = name
                                /\ \A h \in named : symbols[h].name = name => h <= k].id
        mapped == {call \in calls : Known(call.calleeName) /\ Known(call.callerName)}
    IN {[calleeId |-> IdOf(call.calleeName), callerId |-> IdOf(call.callerName)] :
          call \in mapped}

\* exportUsage as the number of import descriptors credited
ExportUsageCountingImports(scan, dependencyEdges) ==
    LET \* exportsByFile.get(target) || new Set(): set only when not empty
        ExportSet(target) ==
          UNION {scan[i].expImp.exportNames : i \in {k \in 1..Len(scan) : scan[k].path = target}}
        \* resolution.get(`${sourceFile}::${specifier}`): the target of the
        \* last local dependency edge of that source and specifier, if any
        Resolution(sourceFile, specifier) ==
          LET Target(hits) ==
                IF hits = {} THEN {}
                ELSE {NormalizePath(dependencyEdges[
                         CHOOSE k \in hits : \A h \in hits : h <= k].target)}
          IN Target({k \in 1..Len(dependencyEdges) :
                        /\ dependencyEdges[k].kind = "local"
                        /\ NormalizePath(dependencyEdges[k].source) = sourceFile
                        /\ dependencyEdges[k].specifier = specifier})
        \* the (key, importer) pairs the loops insert, with the import
        \* descriptor that inserts them
        credits ==
          UNION { UNION { UNION { { [key |-> Text(target) \o "#" \o Text(name),
                                     importer |-> scan[i].path, import |-> m] :
                                    name \in IF scan[i].expImp.imports[m].hasNamespace
                                             THEN ExportSet(target)
                                             ELSE scan[i].expImp.imports[m].names
                                                    \cap ExportSet(target) }
                                  : target \in Resolution(scan[i].path,
                                                 scan[i].expImp.imports[m].specifier) }
                          : m \in 1..Len(scan[i].expImp.imports) }
                  : i \in 1..Len(scan) }
    IN [key \in {c.key : c \in credits} |->
          Cardinality({<<c.importer, c.import>> : c \in {d \in credits : d.key = key}})]

\* lines 149-201 of buildStructureGraph: exportUsage, the number of distinct
\* importer files credited for each `${target}#${name}`
ExportUsage(scan, dependencyEdges) ==
    LET \* exportsByFile.get(target) || new Set(): set only when not empty
        ExportSet(target) ==
          UNION {scan[i].expImp.exportNames : i \in {k \in 1..Len(scan) : scan[k].path = target}}
        \* resolution.get(`${sourceFile}::${specifier}`): the target of the
        \* last local dependency edge of that source and specifier, if any
        Resolution(sourceFile, specifier) ==
          LET Target(hits) ==
                IF hits = {} THEN {}
                ELSE {NormalizePath(dependencyEdges[
                         CHOOSE k \in hits : \A h \in hits : h <= k].target)}
          IN Target({k \in 1..Len(dependencyEdges) :
                        /\ dependencyEdges[k].kind = "local"
                        /\ NormalizePath(dependencyEdges[k].source) = sourceFile
                        /\ dependencyEdges[k].specifier = specifier})
        \* the (key, importer) pairs the loops insert, with the import
        \* descriptor that inserts them
        credits ==
          UNION { UNION { UNION { { [key |-> Text(target) \o "#" \o Text(name),
                                     importer |-> scan[i].path, import |-> m] :
                                    name \in IF scan[i].expImp.imports[m].hasNamespace
                                             THEN ExportSet(target)
                                             ELSE scan[i].expImp.imports[m].names
                                                    \cap ExportSet(target) }
                                  : target \in Resolution(scan[i].path,
                                                 scan[i].expImp.imports[m].specifier) }
                          : m \in 1..Len(scan[i].expImp.imports) }
                  : i \in 1..Len(scan) }
    IN [key \in {c.key : c \in credits} |->
          Cardinality({c.importer : c \in {d \in credits : d.key = key}})]

BuildStructureGraph(fileList, dependencyGraph) ==
    LET \* what the files.forEach of lines 26-127 learns about one file
        Scan(file, normalizedPath, language) ==
          [path |-> normalizedPath,
           id |-> "file:" \o Text(normalizedPath),
           name |-> file.name,
           language |-> language,
           pkgId |-> GetPackageNodeId(normalizedPath),
           extracted |-> ExtractSymbolsForFile(file, language),
           calls |-> ExtractCallsForFile(file, language),
           expImp |-> ExtractExportsAndImportsForFile(file, language)]
        \* the edges pushed and the symbols collected while scanning
        Scanned(scan) ==
          LET Merge(before, file) ==
                [edges |-> before.edges
                            \o (IF file.pkgId # NoId
                                THEN <<[source |-> file.pkgId, target |-> file.id,
                                        type |-> "contains"]>>
                                ELSE <<>>)
                            \o [k \in 1..Len(file.extracted.symbols) |->
                                  [source |-> file.id,
                                   target |-> file.extracted.symbols[k].id,
                                   type |-> "defines"]],
                 symbols |-> before.symbols \o file.extracted.symbols]
              all[i \in 0..Len(scan)] ==
                IF i = 0 THEN [edges |-> <<>>, symbols |-> <<>>]
                ELSE Merge(all[i - 1], scan[i])
          IN all[Len(scan)]
        \* symbolNodes: the first symbol of each id
        SymbolNodes(symbolDetails) ==
          LET first == SelectSeq([k \in 1..Len(symbolDetails) |-> k], LAMBDA k :
                           \A h \in 1..(k - 1) : symbolDetails[h].id # symbolDetails[k].id)
          IN [k \in 1..Len(first) |->
                [id |-> symbolDetails[first[k]].id,
                 kind |-> symbolDetails[first[k]].kind,
                 name |-> symbolDetails[first[k]].name,
                 path |-> symbolDetails[first[k]].path,
                 language |-> symbolDetails[first[k]].language]]
        \* incomingCalls as returned: the number of callers of each callee
        IncomingCalls(scan) ==
          LET added == UNION {IncomingCallers(scan[i].extracted.symbols, scan[i].calls) :
                                i \in 1..Len(scan)}
          IN {[calleeId |-> calleeId,
               count |-> Cardinality({pair.callerId : pair \in {p \in added : p.calleeId = calleeId}})] :
                calleeId \in {pair.calleeId : pair \in added}}
        Assemble(scan, scanned, packageIds) ==
          LET Graph(packageNodes, fileNodes, symbolNodes, edges) ==
                [threw |-> FALSE,
                 nodes |-> packageNodes \o fileNodes \o symbolNodes,
                 edges |-> edges,
                 symbols |-> scanned.symbols,
                 exports |-> {[path |-> scan[i].path, names |-> scan[i].expImp.exportNames] :
                                i \in {k \in 1..Len(scan) : scan[k].expImp.exportNames # {}}},
                 incomingCalls |-> IncomingCalls(scan),
                 exportUsage |-> ExportUsage(scan, dependencyGraph.edges),
                 totals |-> [packages |-> Len(packageNodes), files |-> Len(fileNodes),
                             symbols |-> Len(symbolNodes), relations |-> Len(edges)]]
          IN IF \E i \in 1..Len(scan) : scan[i].extracted.threw
             THEN [threw |-> TRUE]
             ELSE Graph([i \in 1..Len(packageIds) |-> [id |-> packageIds[i], kind |-> "package"]],
                        [i \in 1..Len(scan) |->
                           [id |-> scan[i].id, kind |-> "file", name |-> scan[i].name,
                            path |-> scan[i].path, language |-> scan[i].language]],
                        SymbolNodes(scanned.symbols),
                        scanned.edges
                          \o ImportEdges({scan[i].id : i \in 1..Len(scan)},
                                         dependencyGraph.edges))
        Build(scan) ==
          Assemble(scan, Scanned(scan),
                   Unique(SelectSeq([i \in 1..Len(scan) |-> scan[i].pkgId],
                                    LAMBDA pkgId : pkgId # NoId)))
    IN Build([i \in 1..Len(fileList) |->
                Scan(fileList[i], NormalizePath(fileList[i].path),
                     DetectLanguage(fileList[i].ext))])

(***************************************************************************)
(* analyzeProject (analyzers/projectAnalyzer): the stages after the walk.  *)
(***************************************************************************)
DEFAULT_MAX_FILE_SIZE == 512 * KiB

\* computeFileMetrics: the line count of each file that was read, and the
\* issues about files skipped, long, dense in decisions or holding TODO
\* comments (the complexity score is Number(x.toFixed(2)), here in hundredths)
ComputeFileMetrics(fileList) ==
    LET \* countMatches for a pattern \b(word|...)\b
        CountWords(text, words) ==
          Cardinality({p \in 1..Len(text) :
                         \E word \in words :
                            /\ p + Len(word) - 1 <= Len(text)
                            /\ SubSeq(text, p, p + Len(word) - 1) = word
                            /\ (p = 1 \/ text[p - 1] \notin WordChars)
                            /\ (p + Len(word) > Len(text)
                                \/ text[p + Len(word)] \notin WordChars)})
        \* "=>" between two word characters, the one place \b=>\b matches
        CountArrows(text) ==
          Cardinality({p \in 2..(Len(text) - 2) :
                         /\ text[p] = "=" /\ text[p + 1] = ">"
                         /\ text[p - 1] \in WordChars /\ text[p + 2] \in WordChars})
        DecisionPoints(text) ==
          CountWords(text, {<<"i", "f">>, <<"f", "o", "r">>, <<"w", "h", "i", "l", "e">>, <<"c", "a", "s", "e">>, <<"c", "a", "t", "c", "h">>, <<"t", "h", "r", "o", "w">>,
                            <<"f", "u", "n", "c", "t", "i", "o", "n">>, <<"c", "l", "a", "s", "s">>, <<"s", "w", "i", "t", "c", "h">>})
          + CountArrows(text)
        Measured(file, lineCount, decisionPoints, todoCount) ==
          LET Issue(severity, type) ==
                [severity |-> severity, type |-> type, path |-> file.path]
          IN [lineCount |-> lineCount, skipped |-> FALSE,
              issues |->
                (IF lineCount > 300 THEN <<Issue("warning", "large-file")>> ELSE <<>>)
                \o (IF (20000 * decisionPoints + lineCount) \div (2 * lineCount) > 3500
                    THEN <<Issue("warning", "high-complexity")>> ELSE <<>>)
                \o (IF todoCount > 0 THEN <<Issue("info", "todo-comments")>> ELSE <<>>)]
        Inspect(file) ==
          LET read == ReadFile(file.path)
              Issue(severity, type) ==
                [severity |-> severity, type |-> type, path |-> file.path]
              Content(text) ==
                Measured(file, LineCount(text), DecisionPoints(text),
                         CountWords(text, {<<"T", "O", "D", "O">>, <<"F", "I", "X", "M", "E">>, <<"H", "A", "C", "K">>, <<"X", "X", "X">>}))
          IN IF file.size > DEFAULT_MAX_FILE_SIZE
             THEN [lineCount |-> Null, skipped |-> TRUE,
                   issues |-> <<Issue("info", "file-too-large")>>]
             ELSE IF ~read.readable
             THEN [lineCount |-> Null, skipped |-> TRUE,
                   issues |-> <<Issue("warning", "file-read-error")>>]
             ELSE Content(ContentText(read.stmts))
        issues[i \in 0..Len(fileList)] ==
          IF i = 0 THEN <<>> ELSE issues[i - 1] \o Inspect(fileList[i]).issues
    IN [lineCounts |-> [i \in 1..Len(fileList) |-> Inspect(fileList[i]).lineCount],
        skipped |-> [i \in 1..Len(fileList) |-> Inspect(fileList[i]).skipped],
        issues |-> issues[Len(fileList)]]

\* mergeIssues: metric issues, then walker warnings, then unresolved imports,
\* then smell issues
MergeIssues(metricIssues, walkWarnings, unresolved, smellIssues) ==
    [i \in 1..Len(metricIssues) |->
        [category |-> "metric", severity |-> metricIssues[i].severity,
         path |-> metricIssues[i].path]]
    \o [i \in 1..Len(walkWarnings) |->
        [category |-> "filesystem",
         severity |-> IF walkWarnings[i].type = "limit-reached" THEN "warning" ELSE "info",
         path |-> walkWarnings[i].path]]
    \o [i \in 1..Len(unresolved) |->
        [category |-> "dependency", severity |-> "info", path |-> unresolved[i].source]]
    \o smellIssues

walkData == <<maxEntries, stack, files, directories, warnings, truncated, cur,
              listed, treeEntries, clean, budget>>

\* lines 553-556 of analyzeProject
StepMetrics ==
    /\ pc = "returned"
    /\ pc' = "metrics"
    /\ metrics' = ComputeFileMetrics(files)
    /\ UNCHANGED <<walkData, totals, disk, dependencies, structureGraph, clones, report>>
    /\ UNCHANGED <<resolveVars, snippetVars, fnVars, pageVars>>

\* line 557
StepDependencies ==
    /\ pc = "metrics"
    /\ pc' = "dependencies"
    /\ dependencies' = BuildDependencyGraph(files)
    /\ UNCHANGED <<walkData, totals, disk, metrics, structureGraph, clones, report>>
    /\ UNCHANGED <<resolveVars, snippetVars, fnVars, pageVars>>

\* lines 559-564: an exception of buildStructureGraph leaves analyzeProject
StepStructure ==
    /\ pc = "dependencies"
    /\ \E graph \in {BuildStructureGraph(files, dependencies)} :
       IF graph.threw
       THEN /\ pc' = "threw"
            /\ report' = Rejected("Duplicate declaration")
            /\ UNCHANGED structureGraph
       ELSE /\ pc' = "structure"
            /\ structureGraph' = graph
            /\ UNCHANGED report
    /\ UNCHANGED <<walkData, totals, disk, metrics, dependencies, clones>>
    /\ UNCHANGED <<resolveVars, snippetVars, fnVars, pageVars>>

\* lines 574-581, buildSummary: summary.totals of the report, with the time
\* the walk took (lines 549-551)
BuildSummary ==
    /\ pc = "clones"
    /\ pc' = "summarised"
    /\ \E walkDurationMs \in {3, 1200} :
          totals' = [directories |-> Len(directories), files |-> Len(files),
                     truncated |-> truncated, walkDurationMs |-> walkDurationMs,
                     set |-> TRUE]
    /\ UNCHANGED <<walkData, analyzeVars>>
    /\ UNCHANGED <<resolveVars, snippetVars, fnVars, pageVars>>

(***************************************************************************)
(* The projects the graph stages are run on: the files a completed walk    *)
(* has recorded, and their contents.                                       *)
(***************************************************************************)
OversizeBytes == 300 * KiB

\* the record collectEntries keeps for a file (lines 346-354)
FileEntry(path, size) ==
    [path |-> path, name |-> Basename(path),
     ext |-> ToLowerCase(Extname(Basename(path))), size |-> size,
     isSymbolicLink |-> FALSE, depth |-> Len(SplitSlash(path)) - 1]

\* contents of a.js: what it exports, and whether it imports from itself
GraphContentsA ==
    { Readable(<<FunctionDecl(<<"f", "o", "o">>, "named", <<"(", ")", "{", " ", "r", "e", "t", "u", "r", "n", " ", "1", " ", "}">>)>>),
      Readable(<<FunctionDecl(<<"f", "o", "o">>, "named", <<"(", ")", "{", " ", "r", "e", "t", "u", "r", "n", " ", "1", " ", "}">>),
                 FunctionDecl(<<>>, "default", <<"(", ")", "{", "}">>)>>),
      Readable(<<FunctionDecl(<<"f", "o", "o">>, "no", <<"(", ")", "{", " ", "r", "e", "t", "u", "r", "n", " ", "1", " ", "}">>),
                 ClassDecl(<<"B", "a", "r">>, "named", <<" ", "{", "}">>)>>),
      Readable(<<ImportDecl(<<<<"f", "o", "o">>>>, FALSE, <<".", "/", "a">>),
                 VariableDecl(<<"b", "a", "r">>, "named", "NumericLiteral", <<"1">>)>>),
      Readable(<<ImportDecl(<<>>, TRUE, <<".", "/", "a", ".", "j", "s">>),
                 VariableDecl(<<"f", "o", "o">>, "named", "ArrowFunctionExpression", <<"(", ")", " ", "=", ">", " ", "1">>)>>),
      Readable(<<ClassDecl(<<"F", "o", "o">>, "no", <<" ", "{", "}">>), ClassDecl(<<"F", "o", "o">>, "no", <<" ", "{", " ", "}">>)>>),
      Readable(<<FunctionDecl(<<"f", "o", "o">>, "no", <<"(", ")", " ", "{", " ", "r", "e", "t", "u", "r", "n", " ", "1", " ", "}">>),
                 ClassDecl(<<"B", "o", "x">>, "no", <<" ", "{", "}">>),
                 FunctionDecl(<<"f", "o", "o">>, "no", <<"(", ")", " ", "{", " ", "r", "e", "t", "u", "r", "n", " ", "2", "2", " ", "}">>)>>),
      Readable(<<FunctionDecl(<<"f", "o", "o">>, "no", <<"(", ")", " ", "{", " ", "r", "e", "t", "u", "r", "n", " ", "2", "2", " ", "}">>),
                 FunctionDecl(<<"f", "o", "o">>, "no", <<"(", ")", " ", "{", " ", "r", "e", "t", "u", "r", "n", " ", "1", " ", "}">>),
                 FunctionDecl(<<"f", "o", "o">>, "default", <<"(", ")", " ", "{", " ", "r", "e", "t", "u", "r", "n", " ", "3", "3", " ", "}">>)>>),
      Readable(<<VariableDecl(<<"a", "d", "d">>, "no", "ArrowFunctionExpression", <<"(", "x", ")", " ", "=", ">", " ", "x", " ", "+", " ", "1">>),
                 ClassDecl(<<"s", "h", "a", "p", "e">>, "no", <<" ", "{", "}">>)>>),
      Readable(<<FunctionDecl(<<"f">>, "no", <<"(", ")", " ", "{", " ", "r", "e", "t", "u", "r", "n", " ", "1", " ", "}">>),
                 FunctionDecl(<<"g">>, "no", <<"(", ")", " ", "{", " ", "f", "(", ")", ";", " ", "f", "(", ")", ";", " ", "o", ".", "f", "(", ")", ";", " ", "g", "(", ")", " ", "}">>),
                 FunctionDecl(<<"h">>, "no", <<"(", ")", " ", "{", " ", "r", "e", "t", "u", "r", "n", " ", "f", "(", ")", " ", "}">>),
                 ClassDecl(<<"B", "o", "x">>, "no", <<" ", "{", " ", "m", "(", ")", " ", "{", " ", "f", "(", ")", " ", "}", " ", "}">>),
                 Line("ExpressionStatement", <<"f", "(", ")">>)>>),
      Readable(<<FunctionDecl(<<"f">>, "no", <<"(", ")", " ", "{", " ", "r", "e", "t", "u", "r", "n", " ", "1", " ", "}">>),
                 FunctionDecl(<<"k">>, "default", <<"(", ")", " ", "{", " ", "r", "e", "t", "u", "r", "n", " ", "f", "(", ")", " ", "}">>)>>),
      Readable(<<FunctionDecl(<<"f">>, "no", <<"(", ")", " ", "{", " ", "r", "e", "t", "u", "r", "n", " ", "f", "(", ")", " ", "}">>),
                 VariableDecl(<<"w">>, "no", "ArrowFunctionExpression", <<"(", ")", " ", "=", ">", " ", "f", "(", ")">>),
                 ExportDefaultExpr("ArrowFunctionExpression", <<"(", ")", " ", "=", ">", " ", "f", "(", ")">>)>>),
      Readable(<<Line("Unparseable", <<"e", "x", "p", "o", "r", "t", " ", "f", "u", "n", "c", "t", "i", "o", "n", " ", "(">>)>>),
      Unreadable }

\* contents of b.js: how it imports from a.js
GraphContentsB ==
    { Readable(<<>>),
      Readable(<<ImportDecl(<<<<"f", "o", "o">>>>, FALSE, <<".", "/", "a">>)>>),
      Readable(<<ImportDecl(<<<<"d", "e", "f", "a", "u", "l", "t">>>>, FALSE, <<".", "/", "a", ".", "j", "s">>)>>),
      Readable(<<ImportDecl(<<<<"f", "o", "o">>, <<"b", "a", "r">>>>, FALSE, <<".", "/", "a">>)>>),
      Readable(<<ImportDecl(<<>>, TRUE, <<".", "/", "a">>)>>),
      Readable(<<ImportDecl(<<<<"f", "o", "o">>>>, FALSE, <<".", "/", "a">>),
                 ImportDecl(<<>>, TRUE, <<".", "/", "a">>)>>),
      Readable(<<ImportDecl(<<<<"f", "o", "o">>>>, FALSE, <<".", "/", "m", "i", "s", "s", "i", "n", "g">>),
                 ImportDecl(<<<<"x">>>>, FALSE, <<"r", "e", "a", "c", "t">>)>>),
      Readable(<<RequireCall(<<".", "/", "a">>),
                 FunctionDecl(<<"W", "i", "d", "g", "e", "t">>, "no", <<"(", ")", "{", " ", "r", "e", "t", "u", "r", "n", " ", "f", "o", "o", " ", "}">>)>>),
      Readable(<<FunctionDecl(<<"q">>, "no", <<"(", ")", " ", "{", " ", "r", "e", "t", "u", "r", "n", " ", "f", "(", ")", " ", "}">>)>>) }

\* the other files of the project: below a package directory, below a
\* hidden directory, not JavaScript
GraphOtherFiles ==
    { <<>>,
      <<[path |-> <<"l", "i", "b", "/", "c", ".", "j", "s">>,
         content |-> Readable(<<ImportDecl(<<<<"f", "o", "o">>>>, FALSE, <<".", ".", "/", "a">>)>>)]>>,
      <<[path |-> <<".", "h", "/", "c", ".", "t", "s">>,
         content |-> Readable(<<ImportDecl(<<<<"f", "o", "o">>>>, FALSE, <<".", ".", "/", "a">>)>>)]>>,
      <<[path |-> <<"l", "i", "b", "/", "r", ".", "m", "d">>, content |-> Readable(<<Line("Text", <<"#", " ", "r">>)>>)],
        [path |-> <<"l", "i", "b", "/", "e", ".", "p", "y">>, content |-> Readable(<<Line("Text", <<" ">>)>>)]>>,
      <<[path |-> <<"l", "i", "b", "/", "e", ".", "p", "y">>,
         content |-> Readable(<<PyFromImport(<<"p", "k", "g", ".", "s", "u", "b">>), PyFromImport(<<".", "s", "i", "b">>)>>)]>> }

GraphProjects ==
    { [files |-> <<FileEntry(<<"a", ".", "j", "s">>, StatSize), FileEntry(<<"b", ".", "j", "s">>, sizeB)>>
                 \o [i \in 1..Len(others) |-> FileEntry(others[i].path, StatSize)],
       disk |-> [p \in {<<"a", ".", "j", "s">>, <<"b", ".", "j", "s">>} \cup {others[i].path : i \in 1..Len(others)} |->
                   IF p = <<"a", ".", "j", "s">> THEN a
                   ELSE IF p = <<"b", ".", "j", "s">> THEN b
                   ELSE others[CHOOSE i \in 1..Len(others) : others[i].path = p].content]] :
      a \in GraphContentsA, b \in GraphContentsB, sizeB \in {StatSize, OversizeBytes},
      others \in GraphOtherFiles }

(***************************************************************************)
(* findSymbolClones (analyzers/cloneDetector).  Offsets and token indexes  *)
(* are 0-based as in the code; sequences are 1-based.                      *)
(***************************************************************************)
MIN_TOKENS == 5
MAX_PAIRS == 250000
SHINGLE_SIZE == 3
WINDOW_SIZE == 4
MAX_MATCHES_PER_PAIR == 200
MAX_TOKENS == 5000
MAX_POSITIONS == 64
HASH_PRIME == 1000003

\* a fraction num/den, as the code's quotient of two counts
Fraction(num, den) == [num |-> num, den |-> den]
DEFAULT_THRESHOLD == Fraction(55, 100)
AtLeast(x, y) == x.num * y.den >= y.num * x.den

\* Number(x.toFixed(2)), in hundredths: the nearest hundredth, the larger
\* one on a tie (a tie needs a reduced denominator that is a multiple of 8;
\* below 40 those are eighths, sixteenths, ..., which a double holds exactly)
ToFixed2(x) == (200 * x.num + x.den) \div (2 * x.den)

\* stripCommentsPreserveLayout: block comments, then line comments, are
\* overwritten with spaces, line feeds kept
StripCommentsPreserveLayout(text) ==
    LET Blank(c) == IF c = "\n" THEN "\n" ELSE " "
        \* the index of the "*" that closes a block comment opened at i, or 0
        Closing(t, i) ==
          LET ends == {j \in (i + 2)..(Len(t) - 1) : t[j] = "*" /\ t[j + 1] = "/"} IN
          IF ends = {} THEN 0 ELSE CHOOSE j \in ends : \A k \in ends : j <= k
        \* where the next block comment at or after i opens, or 0
        Opening(t, i) ==
          LET opens == {j \in i..(Len(t) - 1) :
                          t[j] = "/" /\ t[j + 1] = "*" /\ Closing(t, j) # 0} IN
          IF opens = {} THEN 0 ELSE CHOOSE j \in opens : \A k \in opens : j <= k
        RECURSIVE Blocks(_, _)
        \* the first replace: one step for each block comment
        Blocks(t, i) ==
          LET Cut(open) ==
                IF open = 0 THEN SubSeq(t, i, Len(t))
                ELSE LET Fill(close) ==
                           SubSeq(t, i, open - 1)
                           \o [k \in 1..(close + 2 - open) |-> Blank(t[open + k - 1])]
                           \o Blocks(t, close + 2)
                     IN Fill(Closing(t, open))
          IN Cut(Opening(t, i))
        \* the second replace: from "//" to the end of its line
        Lines(t) ==
          [i \in 1..Len(t) |->
             IF /\ t[i] \notin {"\n", "\r"}
                /\ \E j \in 1..i :
                      /\ t[j] = "/" /\ j < Len(t) /\ t[j + 1] = "/"
                      /\ \A k \in j..i : t[k] \notin {"\n", "\r"}
             THEN " " ELSE t[i]]
    IN Lines(Blocks(text, 1))

\* tokenizeWithMeta: the runs of [A-Za-z0-9_], lower-cased, a lone "_" dropped
TokenizeWithMeta(text) ==
    LET Runs(t) ==
          LET starts == {i \in 1..Len(t) :
                           t[i] \in WordChars /\ (i = 1 \/ t[i - 1] \notin WordChars)}
              End(i) == CHOOSE j \in i..Len(t) :
                           /\ \A k \in i..j : t[k] \in WordChars
                           /\ (j = Len(t) \/ t[j + 1] \notin WordChars)
              Run(i, j) == [token |-> ToLowerCase(SubSeq(t, i, j)),
                            offset |-> i - 1, length |-> j + 1 - i]
              \* the matches of the regular expression, from left to right
              Matches ==
                [k \in 1..Cardinality(starts) |->
                   LET At(i) == Run(i, End(i))
                   IN At(CHOOSE i \in starts : Cardinality({x \in starts : x <= i}) = k)]
          IN SelectSeq(Matches, LAMBDA run : run.token # <<"_">>)
        Capped(runs) == SubSeq(runs, 1, IF Len(runs) < MAX_TOKENS THEN Len(runs)
                                        ELSE MAX_TOKENS)
    IN Capped(Runs(StripCommentsPreserveLayout(text)))

\* String.prototype.charCodeAt for the characters of a token
CharCode(c) ==
    LET digits == <<"0", "1", "2", "3", "4", "5", "6", "7", "8", "9">>
        letters == <<"a", "b", "c", "d", "e", "f", "g", "h", "i", "j", "k", "l", "m",
                     "n", "o", "p", "q", "r", "s", "t", "u", "v", "w", "x", "y", "z">>
    IN IF c = "_" THEN 95
       ELSE IF \E i \in 1..10 : digits[i] = c
       THEN 47 + (CHOOSE i \in 1..10 : digits[i] = c)
       ELSE 96 + (CHOOSE i \in 1..26 : letters[i] = c)

\* hashShingle(tokens, start, length), start 0-based
HashShingle(tokens, start, length) ==
    LET RECURSIVE Chars(_, _, _)
        Chars(hash, value, j) ==
          IF j > Len(value) THEN hash
          ELSE Chars((hash * 31 + CharCode(value[j])) % HASH_PRIME, value, j + 1)
        RECURSIVE Tokens(_, _)
        Tokens(hash, i) ==
          IF i >= length THEN hash
          ELSE Tokens((Chars(hash, tokens[start + i + 1], 1) * 131 + 1) % HASH_PRIME, i + 1)
    IN Tokens(0, 0)

\* winnow with a tie between equal hashes going to the earlier index
WinnowEarliestOnTies(hashes, windowSize) ==
    LET Better(current, best) ==
          \/ current.hash < best.hash
          \/ current.hash = best.hash /\ current.index < best.index
        \* the reduce of lines 208-217
        RECURSIVE Least(_, _)
        Least(best, i) ==
          IF i > Len(hashes) THEN best
          ELSE Least(IF Better(hashes[i], best) THEN hashes[i] ELSE best, i + 1)
        PushFingerprint(fingerprints, candidate) ==
          IF fingerprints = <<>> \/ Last(fingerprints) # candidate
          THEN Append(fingerprints, candidate) ELSE fingerprints
        \* the scan of lines 241-251 for the minimum of a window
        RECURSIVE Scan(_, _, _)
        Scan(minIndex, i, windowEnd) ==
          IF i > windowEnd THEN minIndex
          ELSE Scan(IF Better(hashes[i], hashes[minIndex]) THEN i ELSE minIndex,
                    i + 1, windowEnd)
        \* the while loop of lines 239-264; positions are 1-based here
        RECURSIVE Slide(_, _, _)
        Slide(windowStart, minIndex, fingerprints) ==
          LET Moved(newMin) ==
                Slide(windowStart + 1, newMin, PushFingerprint(fingerprints, hashes[newMin]))
          IN IF windowStart + windowSize - 1 > Len(hashes) THEN fingerprints
             ELSE IF minIndex < windowStart
             THEN Moved(Scan(windowStart, windowStart, windowStart + windowSize - 1))
             ELSE IF Better(hashes[windowStart + windowSize - 1], hashes[minIndex])
             THEN Moved(windowStart + windowSize - 1)
             ELSE Slide(windowStart + 1, minIndex, fingerprints)
    IN IF hashes = <<>> \/ windowSize <= 0 THEN <<>>
       ELSE IF Len(hashes) <= windowSize THEN <<Least(hashes[1], 2)>>
       ELSE Slide(1, 0, <<>>)

\* winnow dropping a candidate whose hash alone equals that of the entry
\* emitted last
WinnowDroppingEqualHashes(hashes, windowSize) ==
    LET Better(current, best) ==
          \/ current.hash < best.hash
          \/ current.hash = best.hash /\ current.index > best.index
        \* the reduce of lines 208-217
        RECURSIVE Least(_, _)
        Least(best, i) ==
          IF i > Len(hashes) THEN best
          ELSE Least(IF Better(hashes[i], best) THEN hashes[i] ELSE best, i + 1)
        PushFingerprint(fingerprints, candidate) ==
          IF fingerprints = <<>> \/ Last(fingerprints).hash # candidate.hash
          THEN Append(fingerprints, candidate) ELSE fingerprints
        \* the scan of lines 241-251 for the minimum of a window
        RECURSIVE Scan(_, _, _)
        Scan(minIndex, i, windowEnd) ==
          IF i > windowEnd THEN minIndex
          ELSE Scan(IF Better(hashes[i], hashes[minIndex]) THEN i ELSE minIndex,
                    i + 1, windowEnd)
        \* the while loop of lines 239-264; positions are 1-based here
        RECURSIVE Slide(_, _, _)
        Slide(windowStart, minIndex, fingerprints) ==
          LET Moved(newMin) ==
                Slide(windowStart + 1, newMin, PushFingerprint(fingerprints, hashes[newMin]))
          IN IF windowStart + windowSize - 1 > Len(hashes) THEN fingerprints
             ELSE IF minIndex < windowStart
             THEN Moved(Scan(windowStart, windowStart, windowStart + windowSize - 1))
             ELSE IF Better(hashes[windowStart + windowSize - 1], hashes[minIndex])
             THEN Moved(windowStart + windowSize - 1)
             ELSE Slide(windowStart + 1, minIndex, fingerprints)
    IN IF hashes = <<>> \/ windowSize <= 0 THEN <<>>
       ELSE IF Len(hashes) <= windowSize THEN <<Least(hashes[1], 2)>>
       ELSE Slide(1, 0, <<>>)

\* winnow(hashes, windowSize) over the records [hash, index]
Winnow(hashes, windowSize) ==
    LET Better(current, best) ==
          \/ current.hash < best.hash
          \/ current.hash = best.hash /\ current.index > best.index
        \* the reduce of lines 208-217
        RECURSIVE Least(_, _)
        Least(best, i) ==
          IF i > Len(hashes) THEN best
          ELSE Least(IF Better(hashes[i], best) THEN hashes[i] ELSE best, i + 1)
        PushFingerprint(fingerprints, candidate) ==
          IF fingerprints = <<>> \/ Last(fingerprints) # candidate
          THEN Append(fingerprints, candidate) ELSE fingerprints
        \* the scan of lines 241-251 for the minimum of a window
        RECURSIVE Scan(_, _, _)
        Scan(minIndex, i, windowEnd) ==
          IF i > windowEnd THEN minIndex
          ELSE Scan(IF Better(hashes[i], hashes[minIndex]) THEN i ELSE minIndex,
                    i + 1, windowEnd)
        \* the while loop of lines 239-264; positions are 1-based here
        RECURSIVE Slide(_, _, _)
        Slide(windowStart, minIndex, fingerprints) ==
          LET Moved(newMin) ==
                Slide(windowStart + 1, newMin, PushFingerprint(fingerprints, hashes[newMin]))
          IN IF windowStart + windowSize - 1 > Len(hashes) THEN fingerprints
             ELSE IF minIndex < windowStart
             THEN Moved(Scan(windowStart, windowStart, windowStart + windowSize - 1))
             ELSE IF Better(hashes[windowStart + windowSize - 1], hashes[minIndex])
             THEN Moved(windowStart + windowSize - 1)
             ELSE Slide(windowStart + 1, minIndex, fingerprints)
    IN IF hashes = <<>> \/ windowSize <= 0 THEN <<>>
       ELSE IF Len(hashes) <= windowSize THEN <<Least(hashes[1], 2)>>
       ELSE Slide(1, 0, <<>>)

\* computeFingerprints: the fingerprints, the distinct hashes in insertion
\* order and the token indexes recorded for each hash
ComputeFingerprints(tokens, shingleSize, windowSize) ==
    LET Indexed(fingerprints) ==
          [fingerprints |-> fingerprints,
           hashes |-> Unique([k \in 1..Len(fingerprints) |-> fingerprints[k].hash]),
           index |-> [hash \in {fingerprints[k].hash : k \in 1..Len(fingerprints)} |->
                        LET at == SelectSeq(fingerprints, LAMBDA fp : fp.hash = hash) IN
                        [k \in 1..(IF Len(at) < MAX_POSITIONS THEN Len(at)
                                   ELSE MAX_POSITIONS) |-> at[k].index]]]
    IN IF Len(tokens) < shingleSize
       THEN [fingerprints |-> <<>>, hashes |-> <<>>, index |-> <<>>]
       ELSE Indexed(Winnow([i \in 1..(Len(tokens) - shingleSize + 1) |->
                              [hash |-> HashShingle(tokens, i - 1, shingleSize),
                               index |-> i - 1]],
                           windowSize))

\* enrichSymbol: <<>> stands for null, else the one enriched symbol
EnrichSymbol(symbol) ==
    LET Enriched(runs) ==
          LET WithFingerprints(tokens, fp) ==
                << [id |-> symbol.id, path |-> symbol.path, fileId |-> symbol.fileId,
                    startLine |-> symbol.startLine, endLine |-> symbol.endLine,
                    language |-> symbol.language,
                    text |-> symbol.text,
                    tokens |-> tokens,
                    tokenOffsets |-> [k \in 1..Len(runs) |-> runs[k].offset],
                    tokenLengths |-> [k \in 1..Len(runs) |-> runs[k].length],
                    fingerprints |-> fp.fingerprints,
                    fingerprintHashes |-> fp.hashes,
                    fingerprintIndex |-> fp.index,
                    tokenTotal |-> Len(tokens)] >>
              Tokens(tokens) ==
                WithFingerprints(tokens,
                                 ComputeFingerprints(tokens, SHINGLE_SIZE, WINDOW_SIZE))
          IN IF Len(runs) < MIN_TOKENS THEN <<>>
             ELSE Tokens([k \in 1..Len(runs) |-> runs[k].token])
    IN IF symbol.text = <<>> \/ symbol.id = "" THEN <<>>
       ELSE Enriched(TokenizeWithMeta(symbol.text))

\* extendMatch, token indexes 0-based
ExtendMatch(tokensA, tokensB, idxA, idxB, shingleSize) ==
    LET RECURSIVE Back(_)
        \* how far the match extends to the left
        Back(d) ==
          IF idxA - d > 0 /\ idxB - d > 0 /\ tokensA[idxA - d] = tokensB[idxB - d]
          THEN Back(d + 1) ELSE d
        RECURSIVE Forth(_)
        \* how far it extends to the right of the shingle
        Forth(d) ==
          IF /\ idxA + shingleSize + d < Len(tokensA)
             /\ idxB + shingleSize + d < Len(tokensB)
             /\ tokensA[idxA + shingleSize + d + 1] = tokensB[idxB + shingleSize + d + 1]
          THEN Forth(d + 1) ELSE d
        Limit == IF Len(tokensA) - idxA < Len(tokensB) - idxB
                 THEN Len(tokensA) - idxA ELSE Len(tokensB) - idxB
    IN IF Limit < shingleSize THEN Null
       ELSE [startA |-> idxA - Back(0), endA |-> idxA + shingleSize - 1 + Forth(0),
             startB |-> idxB - Back(0), endB |-> idxB + shingleSize - 1 + Forth(0)]

\* mergeSegments: sort by start (stable), then join what overlaps or touches
MergeSegments(segments) ==
    LET RECURSIVE Sorted(_)
        Sorted(segs) ==
          IF segs = <<>> THEN <<>>
          ELSE LET Pick(m) ==
                     <<segs[m]>> \o Sorted(SubSeq(segs, 1, m - 1) \o SubSeq(segs, m + 1, Len(segs)))
               IN Pick(CHOOSE m \in 1..Len(segs) :
                         /\ \A k \in 1..Len(segs) : segs[m].start <= segs[k].start
                         /\ \A k \in 1..(m - 1) : segs[k].start # segs[m].start)
        RECURSIVE Merged(_, _)
        Merged(merged, rest) ==
          IF rest = <<>> THEN merged
          ELSE IF Head(rest).start <= Last(merged).end + 1
          THEN Merged([merged EXCEPT ![Len(merged)].end =
                         IF Head(rest).end > @ THEN Head(rest).end ELSE @], Tail(rest))
          ELSE Merged(Append(merged, Head(rest)), Tail(rest))
        Join(sorted) == Merged(<<Head(sorted)>>, Tail(sorted))
    IN IF segments = <<>> THEN <<>> ELSE Join(Sorted(segments))

HasSharedFingerprints(a, b) ==
    \E k \in 1..Len(a.fingerprintHashes) :
       \E m \in 1..Len(b.fingerprintHashes) : a.fingerprintHashes[k] = b.fingerprintHashes[m]

\* computeSymbolOverlap: Null, or the similarity with the merged segments
ComputeSymbolOverlap(a, b) ==
    LET shared == SelectSeq(a.fingerprintHashes,
                            LAMBDA hash : \E m \in 1..Len(b.fingerprintHashes) :
                                             b.fingerprintHashes[m] = hash)
        \* the index pairs of one hash, in the order of the nested loops
        Positions(positionsA, positionsB) ==
          [k \in 1..(Len(positionsA) * Len(positionsB)) |->
             <<positionsA[((k - 1) \div Len(positionsB)) + 1],
               positionsB[((k - 1) % Len(positionsB)) + 1]>>]
        RECURSIVE Pairs(_)
        Pairs(h) ==
          IF h > Len(shared) THEN <<>>
          ELSE Positions(a.fingerprintIndex[shared[h]], b.fingerprintIndex[shared[h]])
               \o Pairs(h + 1)
        Seen(pairs) ==
          SubSeq(pairs, 1, IF Len(pairs) < MAX_MATCHES_PER_PAIR THEN Len(pairs)
                           ELSE MAX_MATCHES_PER_PAIR)
        Sum(merged) ==
          LET RECURSIVE Total(_)
              Total(k) == IF k > Len(merged) THEN 0
                          ELSE (merged[k].end - merged[k].start + 1) + Total(k + 1)
          IN Total(1)
        Measure(mergedA, mergedB) ==
          [similarity |-> Fraction(Sum(mergedA),
                                   IF Len(a.tokens) > Len(b.tokens)
                                   THEN Len(a.tokens) ELSE Len(b.tokens)),
           segmentsA |-> mergedA, segmentsB |-> mergedB]
        Segments(matches) ==
          IF matches = <<>> THEN Null
          ELSE Measure(MergeSegments([k \in 1..Len(matches) |->
                                        [start |-> matches[k].startA, end |-> matches[k].endA]]),
                       MergeSegments([k \in 1..Len(matches) |->
                                        [start |-> matches[k].startB, end |-> matches[k].endB]]))
        Matches(seen) ==
          Segments(SelectSeq([k \in 1..Len(seen) |->
                                ExtendMatch(a.tokens, b.tokens, seen[k][1], seen[k][2],
                                            SHINGLE_SIZE)],
                             LAMBDA match : match # Null))
    IN IF shared = <<>> THEN Null ELSE Matches(Seen(Unique(Pairs(1))))

\* the shared tokens over the combined length, without the factor 2
DiceCoefficientHalved(tokensA, tokensB) ==
    LET Shared(tokens) ==
          Cardinality({<<token, n>> \in tokens \X (1..Len(tokensA)) :
                         /\ Cardinality({k \in 1..Len(tokensA) : tokensA[k] = token}) >= n
                         /\ Cardinality({k \in 1..Len(tokensB) : tokensB[k] = token}) >= n})
    IN Fraction(Shared({tokensA[k] : k \in 1..Len(tokensA)}), Len(tokensA) + Len(tokensB))

\* diceCoefficient over the token counts of buildTokenCounts
DiceCoefficient(tokensA, tokensB) ==
    LET Count(tokens, token) == Cardinality({k \in 1..Len(tokens) : tokens[k] = token})
        distinct == Unique(tokensA)
        RECURSIVE Intersection(_)
        Intersection(k) ==
          IF k > Len(distinct) THEN 0
          ELSE (IF Count(tokensA, distinct[k]) < Count(tokensB, distinct[k])
                THEN Count(tokensA, distinct[k]) ELSE Count(tokensB, distinct[k]))
               + Intersection(k + 1)
    IN IF tokensA = <<>> \/ tokensB = <<>> THEN Fraction(0, 1)
       ELSE Fraction(2 * Intersection(1), Len(tokensA) + Len(tokensB))

\* locateLine over buildLineOffsets(text): the 1-based line of a 0-based offset
LocateLine(position, text) ==
    1 + Cardinality({k \in 1..Len(text) : text[k] = "\n" /\ k <= position})

\* segmentsToLines counting the lines from the line after symbol.startLine
SegmentsToLinesOffByOne(symbol, segments) ==
    IF segments = <<>>
    THEN [startLine |-> symbol.startLine, endLine |-> symbol.endLine]
    ELSE [startLine |-> symbol.startLine
                          + LocateLine(symbol.tokenOffsets[segments[1].start + 1], symbol.text),
          endLine |-> symbol.startLine
                        + LocateLine(symbol.tokenOffsets[Last(segments).end + 1]
                                       + symbol.tokenLengths[Last(segments).end + 1] - 1,
                                     symbol.text)]

SegmentsToLines(symbol, segments) ==
    LET Lines(startOffset, endTokenOffset) ==
          LET Range(startLine, endLine) ==
                [startLine |-> IF startLine = 0 THEN symbol.startLine ELSE startLine,
                 endLine |-> IF endLine = 0 THEN symbol.endLine ELSE endLine]
          IN Range(symbol.startLine + LocateLine(startOffset, symbol.text) - 1,
                   symbol.startLine
                     + LocateLine(IF endTokenOffset - 1 > 0 THEN endTokenOffset - 1 ELSE 0,
                                  symbol.text) - 1)
    IN IF segments = <<>>
       THEN [startLine |-> symbol.startLine, endLine |-> symbol.endLine]
       ELSE Lines(symbol.tokenOffsets[segments[1].start + 1],
                  symbol.tokenOffsets[Last(segments).end + 1]
                    + symbol.tokenLengths[Last(segments).end + 1])

JS_FAMILY == {"javascript", "typescript", "js", "ts", "jsx", "tsx"}

\* the languages of this model are those detectLanguage returns
NormalizeLanguage(value) ==
    LET normalized == CASE value = "JavaScript" -> "javascript"
                        [] value = "TypeScript" -> "typescript"
                        [] OTHER -> value
    IN IF value = "" THEN ""
       ELSE IF normalized \in JS_FAMILY THEN "js-family" ELSE normalized

LanguagesAreCompatible(a, b) ==
    \/ NormalizeLanguage(a) = "" \/ NormalizeLanguage(b) = ""
    \/ NormalizeLanguage(a) = NormalizeLanguage(b)

\* classes taken for function-level units too
IsFunctionLikeOrClass(entry) == entry.kind \in {"function", "component", "class"}

IsFunctionLike(entry) == entry.kind \in {"function", "component"}

\* AddClone on the map from a symbol id to its list of clone entries
AddClone(map, source, target, similarity, range) ==
    LET Entry ==
          [targetId |-> target.id,
           filePath |-> target.path,
           startLine |-> IF range # Null /\ range.startLine # 0
                         THEN range.startLine ELSE target.startLine,
           endLine |-> IF range # Null /\ range.endLine # 0
                       THEN range.endLine ELSE target.endLine,
           similarity |-> ToFixed2(similarity)]
    IN IF source.id \in DOMAIN map
       THEN [map EXCEPT ![source.id] = Append(@, Entry)]
       ELSE [id \in DOMAIN map \cup {source.id} |->
               IF id = source.id THEN <<Entry>> ELSE map[id]]

\* lines 36-68 with one AddClone only: the pair is recorded under a alone
FindSymbolClonesOneWay(symbolEntries) ==
    LET RECURSIVE Enriched(_)
        Enriched(k) ==
          IF k > Len(symbolEntries) THEN <<>>
          ELSE (IF IsFunctionLike(symbolEntries[k]) THEN EnrichSymbol(symbolEntries[k])
                ELSE <<>>) \o Enriched(k + 1)
        Record(results, a, b, overlap, dice) ==
          LET Judge(similarity) ==
                IF AtLeast(similarity, DEFAULT_THRESHOLD)
                THEN AddClone(results, a, b, similarity,
                              IF overlap # Null THEN SegmentsToLines(b, overlap.segmentsB)
                              ELSE Null)
                ELSE results
          IN Judge(IF overlap # Null /\ AtLeast(overlap.similarity, dice)
                   THEN overlap.similarity ELSE dice)
        Compare(symbols) ==
          LET RECURSIVE Loop(_, _, _, _)
              Loop(i, j, comparisons, results) ==
                IF i > Len(symbols) THEN results
                ELSE IF j > Len(symbols) \/ comparisons >= MAX_PAIRS
                THEN Loop(i + 1, i + 2, comparisons, results)
                ELSE IF ~LanguagesAreCompatible(symbols[i].language, symbols[j].language)
                THEN Loop(i, j + 1, comparisons, results)
                ELSE Loop(i, j + 1, comparisons + 1,
                          Record(results, symbols[i], symbols[j],
                                 IF HasSharedFingerprints(symbols[i], symbols[j])
                                 THEN ComputeSymbolOverlap(symbols[i], symbols[j])
                                 ELSE Null,
                                 DiceCoefficient(symbols[i].tokens, symbols[j].tokens)))
          IN Loop(1, 2, 0, <<>>)
    IN Compare(Enriched(1))

\* findSymbolClones with the default threshold: the map from a symbol id
\* to its clone entries
FindSymbolClones(symbolEntries) ==
    LET RECURSIVE Enriched(_)
        Enriched(k) ==
          IF k > Len(symbolEntries) THEN <<>>
          ELSE (IF IsFunctionLike(symbolEntries[k]) THEN EnrichSymbol(symbolEntries[k])
                ELSE <<>>) \o Enriched(k + 1)
        Record(results, a, b, overlap, dice) ==
          LET Judge(similarity) ==
                IF AtLeast(similarity, DEFAULT_THRESHOLD)
                THEN AddClone(AddClone(results, a, b, similarity,
                                       IF overlap # Null
                                       THEN SegmentsToLines(b, overlap.segmentsB)
                                       ELSE Null),
                              b, a, similarity,
                              IF overlap # Null THEN SegmentsToLines(a, overlap.segmentsA)
                              ELSE Null)
                ELSE results
          IN Judge(IF overlap # Null /\ AtLeast(overlap.similarity, dice)
                   THEN overlap.similarity ELSE dice)
        Compare(symbols) ==
          LET RECURSIVE Loop(_, _, _, _)
              Loop(i, j, comparisons, results) ==
                IF i > Len(symbols) THEN results
                ELSE IF j > Len(symbols) \/ comparisons >= MAX_PAIRS
                THEN Loop(i + 1, i + 2, comparisons, results)
                ELSE IF ~LanguagesAreCompatible(symbols[i].language, symbols[j].language)
                THEN Loop(i, j + 1, comparisons, results)
                ELSE Loop(i, j + 1, comparisons + 1,
                          Record(results, symbols[i], symbols[j],
                                 IF HasSharedFingerprints(symbols[i], symbols[j])
                                 THEN ComputeSymbolOverlap(symbols[i], symbols[j])
                                 ELSE Null,
                                 DiceCoefficient(symbols[i].tokens, symbols[j].tokens)))
          IN Loop(1, 2, 0, <<>>)
    IN Compare(Enriched(1))

\* line 565 of analyzeProject
StepClones ==
    /\ pc = "structure"
    /\ pc' = "clones"
    /\ \E found \in {FindSymbolClones(structureGraph.symbols)} : clones' = found
    /\ UNCHANGED <<walkData, totals, disk, metrics, dependencies, structureGraph, report>>
    /\ UNCHANGED <<resolveVars, snippetVars, fnVars, pageVars>>

\* top-level functions to compare: near copies, copies that differ in
\* comments and layout, one too short to take part, one unrelated, two of
\* exactly MIN_TOKENS tokens, a class, and two whose matched segments
\* cover more than their shared tokens
CloneFunctions ==
    << FunctionDecl(<<"f">>, "no", <<"(", "x", ")", " ", "{", " ", "r", "e", "t", "u", "r", "n", " ", "x", " ", "+", " ", "1", " ", "}">>),
       FunctionDecl(<<"g">>, "no", <<"(", "x", ")", " ", "{", " ", "r", "e", "t", "u", "r", "n", " ", "x", " ", "+", " ", "2", " ", "}">>),
       FunctionDecl(<<"h">>, "no", <<"(", "a", ",", " ", "b", ")", " ", "{", "\n", " ", " ", "/", "/", " ", "s", "u", "m", "\n", " ", " ", "c", "o", "n", "s", "t", " ", "c", " ", "=", " ", "a", " ", "+", " ", "b", ";", "\n", " ", " ", "r", "e", "t", "u", "r", "n", " ", "c", " ", "*", " ", "2", ";", "\n", "}">>),
       FunctionDecl(<<"k">>, "default", <<"(", "a", ",", " ", "b", ")", " ", "{", "\n", " ", " ", "/", "*", " ", "s", "u", "m", " ", "*", "/", "\n", " ", " ", "c", "o", "n", "s", "t", " ", "c", " ", "=", " ", "a", " ", "+", " ", "b", ";", "\n", " ", " ", "r", "e", "t", "u", "r", "n", " ", "c", " ", "*", " ", "3", ";", "\n", "}">>),
       FunctionDecl(<<"s">>, "no", <<"(", ")", " ", "{", " ", "r", "e", "t", "u", "r", "n", " ", "1", " ", "}">>),
       FunctionDecl(<<"u">>, "no", <<"(", "p", ")", " ", "{", " ", "i", "f", " ", "(", "p", ")", " ", "{", " ", "t", "h", "r", "o", "w", " ", "p", " ", "}", " ", "}">>),
       FunctionDecl(<<"t">>, "no", <<"(", "x", ")", " ", "{", " ", "r", "e", "t", "u", "r", "n", " ", "x", " ", "}">>),
       FunctionDecl(<<"V">>, "no", <<"(", "x", ")", " ", "{", " ", "r", "e", "t", "u", "r", "n", " ", "x", " ", "}">>),
       ClassDecl(<<"B", "o", "x">>, "no", <<" ", "{", " ", "t", "(", "x", ")", " ", "{", " ", "r", "e", "t", "u", "r", "n", " ", "x", " ", "}", " ", "}">>),
       FunctionDecl(<<"m">>, "no", <<"(", ")", " ", "{", " ", "b", "(", "a", "(", "d", "(", "b", "(", "a", "(", "d", ")", ")", ")", ")", ")", " ", "}">>),
       FunctionDecl(<<"n">>, "no", <<"(", ")", " ", "{", " ", "b", "(", "a", "(", "d", "(", "p", "(", "e", "(", "q", ")", ")", ")", ")", ")", " ", "}">>) >>

\* a.js with one or two of the functions, b.js or b.ts with one
CloneProjects ==
    { [files |-> <<FileEntry(<<"a", ".", "j", "s">>, StatSize), FileEntry(pathB, StatSize)>>,
       disk |-> [p \in {<<"a", ".", "j", "s">>, pathB} |->
                   IF p = pathB THEN Readable(<<CloneFunctions[b]>>)
                   ELSE Readable(IF a1 = a2 THEN <<CloneFunctions[a1]>>
                                 ELSE <<CloneFunctions[a1], CloneFunctions[a2]>>)]] :
      a1 \in 1..Len(CloneFunctions), a2 \in 1..Len(CloneFunctions),
      b \in 1..Len(CloneFunctions),
      pathB \in {<<"b", ".", "j", "s">>, <<"b", ".", "t", "s">>} }

(***************************************************************************)
(* winnow called on its own: the hashes computeFingerprints builds carry   *)
(* their position as index (lines 165-171).                                *)
(***************************************************************************)
WinnowInit ==
    /\ fnArgs \in
         { [hashes |-> [i \in 1..Len(values) |-> [hash |-> values[i], index |-> i - 1]],
            windowSize |-> w] :
           values \in UNION {[1..n -> 1..MaxHashValue] : n \in 0..MaxHashes},
           w \in 1..MaxWindow }
    /\ fnResult = [called |-> FALSE]

WinnowCall ==
    /\ ~fnResult.called
    /\ \E fingerprints \in {Winnow(fnArgs.hashes, fnArgs.windowSize)} :
          fnResult' = [called |-> TRUE, value |-> fingerprints]
    /\ UNCHANGED fnArgs
    /\ UNCHANGED nonFnVars

(***************************************************************************)
(* detectCodeSmells (analyzers/codeSmells).  The message of an issue is    *)
(* left out.                                                               *)
(***************************************************************************)
LONG_FUNCTION_WARNING == 50
LONG_FUNCTION_ERROR == 100
PARAM_WARNING_THRESHOLD == 5
PARAM_ERROR_THRESHOLD == 8
BRANCH_WARNING_THRESHOLD == 15
BRANCH_ERROR_THRESHOLD == 25
LARGE_CLASS_METHOD_WARNING == 15
LARGE_CLASS_METHOD_ERROR == 25

\* computeLineSpan, with countLines for a symbol without usable lines
ComputeLineSpan(symbol) ==
    IF symbol.startLine # 0 /\ symbol.endLine # 0
       /\ symbol.endLine - symbol.startLine + 1 > 0
    THEN symbol.endLine - symbol.startLine + 1
    ELSE IF symbol.text = <<>> THEN 0 ELSE LineCount(symbol.text)

\* countBranches: the matches of the branch regular expression.  A keyword
\* matches as a whole word ("else if" is one match, that of its "if");
\* "&&" and "||" match in pairs from the left of a run.
CountBranches(text) ==
    LET WordAt(p, word) ==
          /\ p + Len(word) - 1 <= Len(text)
          /\ SubSeq(text, p, p + Len(word) - 1) = word
          /\ (p = 1 \/ text[p - 1] \notin WordChars)
          /\ (p + Len(word) > Len(text) \/ text[p + Len(word)] \notin WordChars)
        PairAt(p, c) ==
          /\ p < Len(text) /\ text[p] = c /\ text[p + 1] = c
          /\ \E q \in 1..p :
                /\ (q = 1 \/ text[q - 1] # c)
                /\ \A r \in q..p : text[r] = c
                /\ (p - q) % 2 = 0
    IN Cardinality({p \in 1..Len(text) :
                      \/ \E word \in {<<"i", "f">>, <<"f", "o", "r">>, <<"w", "h", "i", "l", "e">>, <<"s", "w", "i", "t", "c", "h">>, <<"c", "a", "s", "e">>, <<"c", "a", "t", "c", "h">>} :
                            text[p] = word[1] /\ WordAt(p, word)
                      \/ PairAt(p, "&") \/ PairAt(p, "|")})

\* countParameters: the first match of /^[^{=>]*\(([^)]*)\)/m, its group
\* split at the commas, the empty pieces and the rest parameters dropped
CountParameters(text) ==
    LET lineStarts == {1} \cup {p + 1 : p \in {q \in 1..Len(text) : text[q] = "\n"}}
        Stop(s) ==
          CHOOSE p \in s..(Len(text) + 1) :
              /\ p = Len(text) + 1 \/ text[p] \in {"{", "=", ">"}
              /\ \A q \in s..(p - 1) : text[q] \notin {"{", "=", ">"}
        Closes(p) == {q \in (p + 1)..Len(text) : text[q] = ")"}
        Opens(s, stop) == {p \in s..(stop - 1) : text[p] = "(" /\ Closes(p) # {}}
        Matches(s) == s <= Len(text) /\ Opens(s, Stop(s)) # {}
        Counted(group) ==
          LET commas == {k \in 1..Len(group) : group[k] = ","}
              Piece(from) ==
                LET ends == {k \in commas \cup {Len(group) + 1} : k > from} IN
                SubSeq(group, from + 1, (CHOOSE k \in ends : \A m \in ends : k <= m) - 1)
              Named(piece) ==
                \E k \in 1..Len(piece) :
                    /\ ~IsBlank(<<piece[k]>>)
                    /\ IsBlank(SubSeq(piece, 1, k - 1))
                    /\ ~(k + 2 <= Len(piece) /\ SubSeq(piece, k, k + 2) = <<".", ".", ".">>)
          IN Cardinality({from \in {0} \cup commas : Named(Piece(from))})
        Group(open) ==
          Counted(SubSeq(text, open + 1,
                         (CHOOSE q \in Closes(open) : \A r \in Closes(open) : q <= r) - 1))
        First(s) ==
          Group(CHOOSE p \in Opens(s, Stop(s)) : \A q \in Opens(s, Stop(s)) : q <= p)
    IN IF \A s \in lineStarts : ~Matches(s) THEN 0
       ELSE First(CHOOSE s \in lineStarts :
                     Matches(s) /\ \A t \in lineStarts : t < s => ~Matches(t))

\* countClassMethods: the matches of
\* /\n\s*(?:async\s+)?(?:static\s+)?[A-Za-z_][\w]*\s*\(/g, one for each "("
\* that a line feed, white space and at most the words async, static and a
\* name precede
CountClassMethods(text) ==
    LET Shape(a, b) ==
          LET starts == {k \in a..b : text[k] \in WordChars
                                      /\ (k = a \/ text[k - 1] \notin WordChars)}
              Word(k) ==
                SubSeq(text, k, CHOOSE e \in k..b :
                                   /\ \A m \in k..e : text[m] \in WordChars
                                   /\ (e = b \/ text[e + 1] \notin WordChars))
              Nth(n) == CHOOSE k \in starts : Cardinality({m \in starts : m <= k}) = n
          IN /\ \A k \in a..b : text[k] \in WordChars \/ IsBlank(<<text[k]>>)
             /\ Cardinality(starts) \in 1..3
             /\ text[Nth(Cardinality(starts))]
                  \notin {"0", "1", "2", "3", "4", "5", "6", "7", "8", "9"}
             /\ Cardinality(starts) = 2 => Word(Nth(1)) \in {<<"a", "s", "y", "n", "c">>, <<"s", "t", "a", "t", "i", "c">>}
             /\ Cardinality(starts) = 3 =>
                   Word(Nth(1)) = <<"a", "s", "y", "n", "c">> /\ Word(Nth(2)) = <<"s", "t", "a", "t", "i", "c">>
    IN Cardinality({p \in 1..Len(text) :
                      /\ text[p] = "("
                      /\ \E i \in 1..(p - 1) : text[i] = "\n" /\ Shape(i + 1, p - 1)})

\* detectCodeSmells over the symbols of the structure graph, with
\* detectFunctionSmells, detectClassSmells and createIssue
DetectCodeSmells(graph) ==
    LET CreateIssue(symbol, severity, type) ==
          [category |-> "smell", severity |-> severity, type |-> type,
           path |-> symbol.path, symbolId |-> symbol.id, line |-> symbol.startLine]
        When(condition, issue) == IF condition THEN <<issue>> ELSE <<>>
        Function(symbol, lineSpan, branchCount, paramCount) ==
          When(lineSpan >= LONG_FUNCTION_WARNING,
               CreateIssue(symbol, IF lineSpan >= LONG_FUNCTION_ERROR THEN "error"
                                   ELSE "warning", "long-function"))
          \o When(paramCount >= PARAM_WARNING_THRESHOLD,
                  CreateIssue(symbol, IF paramCount >= PARAM_ERROR_THRESHOLD THEN "warning"
                                      ELSE "info", "many-parameters"))
          \o When(branchCount >= BRANCH_WARNING_THRESHOLD,
                  CreateIssue(symbol, IF branchCount >= BRANCH_ERROR_THRESHOLD THEN "error"
                                      ELSE "warning", "branch-heavy"))
        Class(symbol, lineSpan, methodCount) ==
          When(lineSpan >= LONG_FUNCTION_WARNING * 2,
               CreateIssue(symbol, IF lineSpan >= LONG_FUNCTION_ERROR * 2 THEN "error"
                                   ELSE "warning", "large-class"))
          \o When(methodCount >= LARGE_CLASS_METHOD_WARNING,
                  CreateIssue(symbol, IF methodCount >= LARGE_CLASS_METHOD_ERROR THEN "error"
                                      ELSE "warning", "many-methods"))
        Smells(symbol) ==
          IF symbol.text = <<>> \/ symbol.path = <<>> THEN <<>>
          ELSE IF symbol.kind \in {"function", "component"}
          THEN Function(symbol, ComputeLineSpan(symbol), CountBranches(symbol.text),
                        CountParameters(symbol.text))
          ELSE IF symbol.kind \in {"class"}
          THEN Class(symbol, ComputeLineSpan(symbol), CountClassMethods(symbol.text))
          ELSE <<>>
        RECURSIVE Each(_)
        Each(k) == IF k > Len(graph.symbols) THEN <<>>
                   ELSE Smells(graph.symbols[k]) \o Each(k + 1)
    IN Each(1)

\* aggregateLanguages: one entry per language in the order of its first
\* file, sorted by falling number of files (the sort is stable)
AggregateLanguages(fileList, metricsByFile) ==
    LET Language(i) == DetectLanguage(fileList[i].ext)
        first == {i \in 1..Len(fileList) : \A j \in 1..(i - 1) : Language(j) # Language(i)}
        Of(i) == {j \in 1..Len(fileList) : Language(j) = Language(i)}
        Sum(S, Value(_)) ==
          LET sum[T \in SUBSET S] ==
                IF T = {} THEN 0
                ELSE LET j == CHOOSE k \in T : TRUE IN Value(j) + sum[T \ {j}]
          IN sum[S]
        Bytes(j) == fileList[j].size
        Lines(j) == IF metricsByFile.skipped[j] THEN 0 ELSE metricsByFile.lineCounts[j]
        Before(i, j) ==
          \/ Cardinality(Of(i)) > Cardinality(Of(j))
          \/ Cardinality(Of(i)) = Cardinality(Of(j)) /\ i < j
        Ranked(r) == CHOOSE i \in first : Cardinality({j \in first : Before(j, i)}) = r - 1
        Entry(i) == [language |-> Language(i), files |-> Cardinality(Of(i)),
                     lines |-> Sum(Of(i), Lines), bytes |-> Sum(Of(i), Bytes)]
    IN [r \in 1..Cardinality(first) |-> Entry(Ranked(r))]

(***************************************************************************)
(* computeDependencyInsights (analyzers/dependencyInsights).               *)
(***************************************************************************)
MAX_ITEMS == 5

ComputeDependencyInsights(graph) ==
    LET edges == SelectSeq(graph.edges, LAMBDA edge : edge.source # <<>>)
        \* extractPackageName; <<>> stands for null
        ExtractPackageName(specifier) ==
          LET slashes == {i \in 1..Len(specifier) : specifier[i] = "/"}
              UpTo(n) ==
                IF Cardinality(slashes) < n THEN specifier
                ELSE SubSeq(specifier, 1,
                            (CHOOSE i \in slashes :
                                Cardinality({j \in slashes : j <= i}) = n) - 1)
          IN IF specifier[1] \in {".", "/"} THEN <<>>
             ELSE IF specifier[1] = "@" THEN UpTo(2)
             ELSE UpTo(1)
        \* the keys one of the maps is set with, edge by edge
        fanOutKeys == [i \in 1..Len(edges) |-> <<edges[i].source>>]
        fanInKeys ==
          [i \in 1..Len(edges) |->
             IF edges[i].kind = "local" /\ edges[i].target # <<>>
             THEN <<edges[i].target>> ELSE <<>>]
        externalKeys ==
          [i \in 1..Len(edges) |->
             IF edges[i].kind = "external" /\ edges[i].target # <<>>
                /\ ExtractPackageName(edges[i].target) # <<>>
             THEN <<ExtractPackageName(edges[i].target)>> ELSE <<>>]
        \* pickTopEntries over the map: its entries in the order of their
        \* first insertion, sorted by falling count (the sort is stable), the
        \* first MAX_ITEMS kept
        PickTopEntries(keys) ==
          LET Count(key) == Cardinality({i \in 1..Len(keys) : keys[i] = <<key>>})
              first == {i \in 1..Len(keys) :
                          keys[i] # <<>> /\ \A j \in 1..(i - 1) : keys[j] # keys[i]}
              Before(i, j) ==
                \/ Count(keys[i][1]) > Count(keys[j][1])
                \/ Count(keys[i][1]) = Count(keys[j][1]) /\ i < j
              Ranked(r) ==
                CHOOSE i \in first : Cardinality({j \in first : Before(j, i)}) = r - 1
              kept == IF Cardinality(first) < MAX_ITEMS THEN Cardinality(first)
                      ELSE MAX_ITEMS
          IN [r \in 1..kept |->
                [path |-> keys[Ranked(r)][1], count |-> Count(keys[Ranked(r)][1])]]
    IN [fanOut |-> PickTopEntries(fanOutKeys),
        fanIn |-> PickTopEntries(fanInKeys),
        externalPackages |-> PickTopEntries(externalKeys)]

\* lines 559, 566 and 582-603 of analyzeProject: the dependency insights (a
\* function of the dependencies alone), the smell issues, mergeIssues and
\* the returned report
StepReport ==
    /\ pc = "summarised"
    /\ pc' = "done"
    /\ \E smellIssues \in {DetectCodeSmells(structureGraph)} :
          report' = [rejected |-> FALSE,
                     clones |-> clones,
                     dependencyInsights |-> ComputeDependencyInsights(dependencies),
                     dependencies |-> dependencies,
                     summary |-> [totals |-> totals,
                                  languages |-> AggregateLanguages(files, metrics),
                                  warningsCount |-> Len(warnings)],
                     issues |-> MergeIssues(metrics.issues, warnings,
                                            dependencies.unresolved, smellIssues)]
    /\ UNCHANGED <<walkData, totals, disk, metrics, dependencies, structureGraph, clones>>
    /\ UNCHANGED <<resolveVars, snippetVars, fnVars, pageVars>>

(***************************************************************************)
(* generateTextSummary (analyzers/textSummary): the overview and the       *)
(* metrics of the narrative; key facts, hotspots, actions and clone        *)
(* details are left out.  Counts stay below 1000, where toLocaleString     *)
(* writes the plain digits.                                                *)
(***************************************************************************)
GenerateTextSummary(analysis) ==
    LET totals_ == analysis.summary.totals
        languages == analysis.summary.languages
        totalFiles == totals_.files
        totalDirectories == totals_.directories
        Round(num, den) == (2 * num + den) \div (2 * den)
        FormatDuration(ms) ==
          IF ms < 1000 THEN ToString(ms) \o " ms"
          ELSE LET hundredths == Round(ms, 10)
               IN ToString(hundredths \div 100) \o "."
                  \o ToString((hundredths % 100) \div 10) \o ToString(hundredths % 10)
                  \o " s"
        scanned ==
          IF totalFiles > 0 \/ totalDirectories > 0
          THEN <<"Scanned " \o ToString(totalFiles) \o " file"
                 \o (IF totalFiles = 1 THEN "" ELSE "s") \o " across "
                 \o ToString(totalDirectories) \o " director"
                 \o (IF totalDirectories = 1 THEN "y" ELSE "ies") \o ".">>
          ELSE <<>>
        Dominant(first, share) ==
          <<first.language \o " dominates the codebase"
            \o (IF share > 0 THEN " (~" \o ToString(share) \o "% of files)" ELSE "")
            \o ".">>
        dominates ==
          IF Len(languages) > 0
          THEN Dominant(languages[1],
                        IF totalFiles > 0 THEN Round(languages[1].files * 100, totalFiles)
                        ELSE 0)
          ELSE <<>>
        traversal ==
          <<"Traversal completed in " \o FormatDuration(totals_.walkDurationMs) \o ".">>
        limit ==
          IF totals_.truncated
          THEN <<"Traversal limit was reached, so deeper directories may remain unchecked.">>
          ELSE <<>>
        overviewParts == scanned \o dominates \o traversal \o limit
        RECURSIVE Join(_)
        Join(parts) == IF Len(parts) = 1 THEN parts[1]
                       ELSE parts[1] \o " " \o Join(Tail(parts))
        Severity(severity) ==
          Cardinality({i \in 1..Len(analysis.issues) :
                         analysis.issues[i].severity = severity})
    IN [overview |-> IF Len(overviewParts) > 0 THEN Join(overviewParts)
                     ELSE "No notable architectural facts detected.",
        metrics |-> [totalFiles |-> totalFiles,
                     totalDirectories |-> totalDirectories,
                     traversalMs |-> totals_.walkDurationMs,
                     truncated |-> totals_.truncated,
                     severityCounts |-> [error |-> Severity("error"),
                                         warning |-> Severity("warning"),
                                         info |-> Severity("info")],
                     unresolvedImports |-> Len(analysis.dependencies.unresolved)]]

\* the /api/analyze handler past analyzeProject (server, lines 53-56): the
\* narrative is attached and the report sent
SendReport ==
    /\ pc = "done"
    /\ pc' = "sent"
    /\ \E narrative \in {GenerateTextSummary(report)} :
          report' = [field \in DOMAIN report \cup {"narrative"} |->
                       IF field = "narrative" THEN narrative ELSE report[field]]
    /\ UNCHANGED <<walkData, totals, disk, metrics, dependencies, structureGraph, clones>>
    /\ UNCHANGED <<resolveVars, snippetVars, fnVars, pageVars>>

\* renderIssuesSection (public/app.js): one item per issue, in the order of
\* the array; nothing for an empty array
RenderIssuesSection(issues) ==
    [i \in 1..Len(issues) |->
       [severity |-> issues[i].severity, category |-> issues[i].category,
        path |-> issues[i].path]]

\* renderReport (public/app.js), the issues panel of the page
RenderReport ==
    /\ pc = "sent"
    /\ pc' = "rendered"
    /\ issuesPanel' = RenderIssuesSection(report.issues)
    /\ UNCHANGED <<walkData, totals, analyzeVars>>
    /\ UNCHANGED <<resolveVars, snippetVars, fnVars, diagramVars>>

(***************************************************************************)
(* The diagram page (public/diagram.js).  Each await of runAnalysis and    *)
(* of fetchSourceSnippet ends an action; the response, when it arrives,    *)
(* runs the rest of the function.  An analysis response is reduced to the  *)
(* rootPath of its report, the mind map to its root node; the selection,   *)
(* the sidebar, the clone previews and the is-loading class are left out.  *)
(***************************************************************************)
MaxSubmits == 2   \* runAnalysis is called at most MaxSubmits times

\* what the root input may hold when the form is submitted
RootInputs == { <<" ", " ">>, <<"/", "p">>, <<" ", "/", "q", "/">> }

\* the files of the nodes a rendered mind map offers
DiagramFiles == { <<"a", ".", "j", "s">>, <<"b", ".", "j", "s">> }

\* String.prototype.trim
Trim(text) ==
    LET inked == {i \in 1..Len(text) : ~IsBlank(<<text[i]>>)} IN
    IF inked = {} THEN <<>>
    ELSE SubSeq(text, CHOOSE i \in inked : \A j \in inked : i <= j,
                CHOOSE i \in inked : \A j \in inked : j <= i)

\* the report /api/analyze answers with for a root path (rootPath: absRoot)
ReportFor(rootPath) == [rootPath |-> PathResolve(Cwd, rootPath)]

\* buildMindMapData, the root node with deriveProjectLabel
BuildMindMapData(analysis) ==
    LET DeriveProjectLabel(rootPath) ==
          LET kept == {k \in 0..Len(rootPath) : \A i \in (k + 1)..Len(rootPath) : rootPath[i] = "/"}
              trimmed == SubSeq(rootPath, 1, CHOOSE k \in kept : \A m \in kept : k <= m)
              parts == SelectSeq(SplitSlash(trimmed), LAMBDA part : part # <<>>)
          IN IF rootPath = <<>> THEN <<"P", "r", "o", "j", "e", "c", "t">>
             ELSE IF parts = <<>> THEN (IF trimmed # <<>> THEN trimmed ELSE <<"P", "r", "o", "j", "e", "c", "t">>)
             ELSE Last(parts)
    IN [id |-> "root:" \o Text(DeriveProjectLabel(analysis.rootPath)),
        name |-> DeriveProjectLabel(analysis.rootPath),
        type |-> "root",
        path |-> analysis.rootPath]

DiagramInit ==
    /\ submitted = <<>>
    /\ inFlight = {}
    /\ responded = <<>>
    /\ lastReport = Null
    /\ diagramData = Null
    /\ graphContainer = Null
    /\ detailPanel = ""
    /\ snippetCache = {}
    /\ snippetsInFlight = {}

\* the submit handler and runAnalysis up to its await (lines 30-50)
SubmitDiagramForm ==
    /\ Len(submitted) < MaxSubmits
    /\ \E value \in RootInputs :
          IF Trim(value) = <<>>
          THEN /\ detailPanel' = "Provide a valid project root to continue."
               /\ UNCHANGED <<submitted, inFlight, graphContainer, snippetCache>>
          ELSE /\ detailPanel' = "Loading analysis..."
               /\ graphContainer' = Null
               /\ snippetCache' = {}
               /\ submitted' = Append(submitted, [rootPath |-> Trim(value),
                                                   overlaps |-> inFlight # {}])
               /\ inFlight' = inFlight \cup {[request |-> Len(submitted) + 1,
                                                rootPath |-> Trim(value)]}
    /\ UNCHANGED <<responded, lastReport, diagramData, snippetsInFlight>>
    /\ UNCHANGED <<walkVars, analyzeVars, resolveVars, snippetVars, fnVars, issuesPanel>>

\* runAnalysis from the arrival of a response on (lines 51-72)
AnalysisResponse ==
    /\ \E sent \in inFlight, ok \in BOOLEAN :
          /\ inFlight' = inFlight \ {sent}
          /\ responded' = Append(responded, [request |-> sent.request, ok |-> ok])
          /\ IF ok
             THEN /\ lastReport' = ReportFor(sent.rootPath)
                  /\ diagramData' = BuildMindMapData(ReportFor(sent.rootPath))
                  /\ graphContainer' = BuildMindMapData(ReportFor(sent.rootPath))
                  /\ detailPanel' = "Select a node to view details."
             ELSE /\ detailPanel' = "Failed to analyze project"
                  /\ UNCHANGED <<lastReport, diagramData, graphContainer>>
    /\ UNCHANGED <<submitted, snippetCache, snippetsInFlight>>
    /\ UNCHANGED <<walkVars, analyzeVars, resolveVars, snippetVars, fnVars, issuesPanel>>

\* handleNodeSelect for a node of the rendered mind map that has a file,
\* with fetchSourceSnippet up to its await (lines 91-118, 208-217)
HandleNodeSelect ==
    /\ graphContainer # Null
    /\ lastReport # Null
    /\ \E filePath \in DiagramFiles :
          /\ [rootPath |-> lastReport.rootPath, filePath |-> filePath] \notin snippetCache
          /\ snippetsInFlight' = snippetsInFlight
                                   \cup {[rootPath |-> lastReport.rootPath,
                                           filePath |-> filePath]}
    /\ UNCHANGED <<submitted, inFlight, responded, lastReport, diagramData, graphContainer,
                   detailPanel, snippetCache>>
    /\ UNCHANGED <<walkVars, analyzeVars, resolveVars, snippetVars, fnVars, issuesPanel>>

\* fetchSourceSnippet from the arrival of a response on (lines 218-223)
SnippetResponse ==
    /\ \E cacheKey \in snippetsInFlight, ok \in BOOLEAN :
          /\ snippetsInFlight' = snippetsInFlight \ {cacheKey}
          /\ snippetCache' = IF ok THEN snippetCache \cup {cacheKey} ELSE snippetCache
    /\ UNCHANGED <<submitted, inFlight, responded, lastReport, diagramData, graphContainer,
                   detailPanel>>
    /\ UNCHANGED <<walkVars, analyzeVars, resolveVars, snippetVars, fnVars, issuesPanel>>

(***************************************************************************)
(* detectCodeSmells called on its own, on a structure graph of one symbol  *)
(* whose text is written out line by line: a header, one if/else (or one   *)
(* method) on each of the first lines of the body, a closing brace.  What  *)
(* was written is kept beside the graph.                                   *)
(***************************************************************************)
SmellSymbol(kind, parameters, count, lines) ==
    LET name == IF kind = "function" THEN <<"f">>
                ELSE IF kind = "file" THEN <<"u">> ELSE <<"F">>
        path == <<"u", "t", "i", "l", ".", "j", "s">>
        RECURSIVE Joined(_)
        Joined(k) == IF k > Len(parameters) THEN <<>>
                     ELSE (IF k = 1 THEN <<>> ELSE <<",", " ">>) \o parameters[k] \o Joined(k + 1)
        header == IF kind = "class" THEN <<"c", "l", "a", "s", "s", " ">> \o name \o <<" ", "{">>
                  ELSE <<"f", "u", "n", "c", "t", "i", "o", "n", " ">> \o name \o <<"(">> \o Joined(1) \o <<")", " ", "{">>
        body == IF kind = "class" THEN <<" ", " ", "m", "(", ")", " ", "{", "}">>
                ELSE <<" ", " ", "i", "f", " ", "(", "a", ")", " ", "{", " ", "b", "(", ")", " ", "}", " ", "e", "l", "s", "e", " ", "{", " ", "c", "(", ")", " ", "}">>
        width == 40
        Row(n) == IF n = 1 THEN header
                  ELSE IF n = lines THEN <<"}">>
                  ELSE IF n - 1 <= count THEN body
                  ELSE <<" ", " ", "x", " ", "=", " ", "1", ";">>
        At(row, column, last) ==
          IF column <= Len(row) THEN row[column]
          ELSE IF column = width /\ ~last THEN "\n" ELSE " "
    IN [id |-> (IF kind = "file" THEN <<"f", "i", "l", "e", ":", "u", "t", "i", "l", ".", "j", "s">>
                ELSE (IF kind = "class" THEN <<"c", "l", "a", "s", "s">>
                      ELSE IF kind = "function" THEN <<"f", "u", "n", "c", "t", "i", "o", "n">>
                      ELSE <<"c", "o", "m", "p", "o", "n", "e", "n", "t">>) \o <<":", "u", "t", "i", "l", ".", "j", "s", "#">> \o name),
        kind |-> kind,
        name |-> IF kind = "file" THEN path ELSE name,
        path |-> path, fileId |-> path,
        startLine |-> 1, endLine |-> lines,
        text |-> [i \in 1..(width * lines - 1) |->
                    At(Row(((i - 1) \div width) + 1), ((i - 1) % width) + 1,
                       ((i - 1) \div width) + 1 = lines)]]

SmellInputs ==
    LET parameters ==
          << <<>>,
             <<<<"a">>, <<"b">>, <<"c">>, <<"d">>>>,
             <<<<"a">>, <<"b">>, <<"c">>, <<"d">>, <<"e">>>>,
             <<<<"a">>, <<"b">>, <<"c">>, <<"d">>, <<"e">>, <<"g">>, <<"h">>>>,
             <<<<"a">>, <<"b">>, <<"c">>, <<"d">>, <<"e">>, <<"g">>, <<"h">>, <<"i">>>>,
             <<<<"a">>, <<"b">>, <<"c">>, <<"d">>, <<".", ".", ".", "r">>>>,
             <<<<"{", "a", ",", " ", "b", ",", " ", "c", ",", " ", "d", ",", " ", "e", "}">>>> >>
        Input(kind, p, count, lines) ==
          [graph |-> [symbols |-> <<SmellSymbol(kind, parameters[p], count, lines)>>],
           written |-> [parameters |-> Len(parameters[p]),
                        branches |-> IF kind = "class" THEN 0 ELSE count,
                        methods |-> IF kind = "class" THEN count ELSE 0,
                        lines |-> lines]]
        choices ==
          { c \in {"function", "component", "class", "file"} \X (1..Len(parameters))
                  \X {0, 14, 15, 24, 25, 30} \X {40, 49, 50, 99, 100, 120, 199, 200} :
              \/ c[1] \in {"function", "component"} /\ c[4] <= 120
                 /\ (c[2] = 1 \/ (c[3] = 0 /\ c[4] = 40) \/ (c[3] = 30 /\ c[4] = 120))
              \/ c[1] \in {"class", "file"} /\ c[2] = 1 }
    IN { Input(c[1], c[2], c[3], c[4]) : c \in choices }

SmellInit ==
    /\ fnArgs \in SmellInputs
    /\ fnResult = [called |-> FALSE]

SmellCall ==
    /\ ~fnResult.called
    /\ \E issues \in {DetectCodeSmells(fnArgs.graph)} :
          fnResult' = [called |-> TRUE, value |-> issues]
    /\ UNCHANGED fnArgs
    /\ UNCHANGED nonFnVars

(***************************************************************************)
(* Specifications, one per component.                                      *)
(***************************************************************************)
AnalyzeInit(disks) ==
    /\ disk \in disks
    /\ metrics = NotCalled
    /\ dependencies = NotCalled
    /\ structureGraph = NotCalled
    /\ clones = NotCalled
    /\ report = NotCalled

Init ==
    /\ WalkInit(1..MaxEntriesBound, MaxNodes)
    /\ AnalyzeInit({<<>>})
    /\ ResolveIdle
    /\ SnippetIdle
    /\ FnIdle
    /\ PageIdle

Next ==
    \/ CollectStart
    \/ PopDirectory
    \/ VisitEntry
    \/ EndOfListing
    \/ ReturnComplete
    \/ StepMetrics
    \/ StepDependencies
    \/ StepStructure
    \/ StepClones
    \/ BuildSummary
    \/ StepReport
    \/ SendReport
    \/ RenderReport

Spec == Init /\ [][Next]_vars

\* the walk of a project has returned; the stages run on what it recorded
InitGraph ==
    /\ \E project \in GraphProjects \cup CloneProjects :
          /\ files = project.files
          /\ disk = project.disk
    /\ pc = "returned"
    /\ maxEntries = DefaultMaxEntries
    /\ stack = <<>>
    /\ directories = <<[path |-> RootPath, depth |-> 0]>>
    /\ warnings = <<>>
    /\ truncated = FALSE
    /\ cur = NoDir
    /\ listed = {}
    /\ treeEntries = 1 + Len(files)
    /\ clean = TRUE
    /\ budget = 0
    /\ totals = NoTotals
    /\ metrics = NotCalled
    /\ dependencies = NotCalled
    /\ structureGraph = NotCalled
    /\ clones = NotCalled
    /\ report = NotCalled
    /\ ResolveIdle
    /\ SnippetIdle
    /\ FnIdle
    /\ PageIdle

NextGraph ==
    \/ StepMetrics
    \/ StepDependencies
    \/ StepStructure
    \/ StepClones
    \/ BuildSummary
    \/ StepReport
    \/ SendReport
    \/ RenderReport

SpecGraph == InitGraph /\ [][NextGraph]_vars

InitResolve == ResolveInit /\ WalkIdle /\ SnippetIdle /\ FnIdle /\ PageIdle
NextResolve == Resolve
SpecResolve == InitResolve /\ [][NextResolve]_vars

InitSnippet == SnippetInit /\ WalkIdle /\ ResolveIdle /\ FnIdle /\ PageIdle
NextSnippet == ReadSnippet
SpecSnippet == InitSnippet /\ [][NextSnippet]_vars

InitDiagram ==
    /\ DiagramInit /\ issuesPanel = <<>>
    /\ WalkIdle /\ ResolveIdle /\ SnippetIdle /\ FnIdle
NextDiagram ==
    \/ SubmitDiagramForm
    \/ AnalysisResponse
    \/ HandleNodeSelect
    \/ SnippetResponse
SpecDiagram == InitDiagram /\ [][NextDiagram]_vars

InitWinnow == WinnowInit /\ WalkIdle /\ ResolveIdle /\ SnippetIdle /\ PageIdle
NextWinnow == WinnowCall
SpecWinnow == InitWinnow /\ [][NextWinnow]_vars

InitSmells == SmellInit /\ WalkIdle /\ ResolveIdle /\ SnippetIdle /\ PageIdle
NextSmells == SmellCall
SpecSmells == InitSmells /\ [][NextSmells]_vars

(***************************************************************************)
(* Properties.                                                             *)
(***************************************************************************)
Returned ==
    pc \in {"returned", "metrics", "dependencies", "structure", "clones", "summarised",
           "done"}
HasWarning(type) == \E i \in 1..Len(warnings) : warnings[i].type = type
LimitWarnings == {i \in 1..Len(warnings) : warnings[i].type = "limit-reached"}

(***************************************************************************)
(* C1: for every tree and every maxEntries >= 1 the result of              *)
(* collectEntries has files.length + directories.length <= maxEntries.     *)
(* The code breaks it: the root and every directory popped from the stack  *)
(* are recorded without a limit test, and the file test runs after the     *)
(* push.                                                                   *)
(***************************************************************************)
C1_CountWithinMaxEntries == Returned => EntryCount <= maxEntries

(***************************************************************************)
(* C2: whenever collectEntries returns, truncated is true exactly when the *)
(* warnings hold a limit-reached entry; stat-error and read-error warnings *)
(* alone never set it.                                                     *)
(***************************************************************************)
C2_TruncatedIffLimitWarning == Returned => (truncated <=> HasWarning("limit-reached"))

C2_Witness ==
    /\ pc = "returned"
    /\ truncated
    /\ HasWarning("limit-reached")
    /\ HasWarning("stat-error")

(***************************************************************************)
(* C3: whenever collectEntries returns with files.length +                 *)
(* directories.length equal to maxEntries, or with a limit-reached         *)
(* warning, the report's totals.truncated is true.  The code breaks it     *)
(* when the entry that brings the count to maxEntries is a directory.      *)
(***************************************************************************)
C3_EqualOrWarnedIsTruncated ==
    pc = "summarised" =>
        ((EntryCount = maxEntries \/ HasWarning("limit-reached")) => totals.truncated)

(***************************************************************************)
(* C4: for every tree holding more non-ignored entries (root included)     *)
(* than maxEntries, collectEntries stops with files.length +               *)
(* directories.length = maxEntries, truncated = true and exactly one       *)
(* limit-reached warning.  Stated here for walks that met no stat or       *)
(* readdir failure and no special entry.                                   *)
(***************************************************************************)
C4_LargerTreeStopsAtMaxEntries ==
    (Returned /\ clean /\ treeEntries > maxEntries) =>
        /\ EntryCount = maxEntries
        /\ truncated
        /\ Cardinality(LimitWarnings) = 1

\* the order the specification fixes: exact path, path + extension, path/index + extension
RsIndex(ext) == <<"i", "n", "d", "e", "x">> \o ext
RsCandidateOrder ==
    LET base == PotentialBase(rsSpecifier, rsSource) IN
    << base,
       base \o <<".", "j", "s">>, base \o <<".", "j", "s", "x">>,
       base \o <<".", "t", "s">>, base \o <<".", "t", "s", "x">>,
       base \o <<".", "m", "j", "s">>, base \o <<".", "c", "j", "s">>,
       base \o <<".", "j", "s", "o", "n">>,
       PosixJoin(base, RsIndex(<<".", "j", "s">>)),
       PosixJoin(base, RsIndex(<<".", "j", "s", "x">>)),
       PosixJoin(base, RsIndex(<<".", "t", "s">>)),
       PosixJoin(base, RsIndex(<<".", "t", "s", "x">>)),
       PosixJoin(base, RsIndex(<<".", "m", "j", "s">>)),
       PosixJoin(base, RsIndex(<<".", "c", "j", "s">>)),
       PosixJoin(base, RsIndex(<<".", "j", "s", "o", "n">>)) >>

(***************************************************************************)
(* C10: for every relative specifier and file set, resolveSpecifier        *)
(* returns the first existing candidate in the fixed order exact path,     *)
(* path + .js .jsx .ts .tsx .mjs .cjs .json, path/index + the same         *)
(* extensions; no later candidate is chosen while an earlier one is in the *)
(* file set, the returned target is a member of the file set, and nothing  *)
(* is returned when no candidate exists.                                   *)
(***************************************************************************)
C10_FirstCandidateInOrderWins ==
    (rsResult # NotCalled /\ IsRelativeSpecifier(rsSpecifier)) =>
        LET order == RsCandidateOrder
            existing == {k \in 1..Len(order) : order[k] \in rsFileSet}
        IN IF existing = {} THEN rsResult = Null
           ELSE /\ rsResult # Null
                /\ rsResult.kind = "local"
                /\ rsResult.target \in rsFileSet
                /\ \E k \in existing :
                      /\ rsResult.target = order[k]
                      /\ \A j \in existing : k <= j

\* ./x from m.js while x.ts, x.json and x/index.js all exist: x.ts is chosen
C10_Witness ==
    /\ rsResult # NotCalled
    /\ rsSpecifier = <<".", "/", "x">>
    /\ rsSource = <<"m", ".", "j", "s">>
    /\ <<"x">> \notin rsFileSet
    /\ <<"x", ".", "j", "s">> \notin rsFileSet
    /\ {<<"x", ".", "t", "s">>, <<"x", ".", "j", "s", "o", "n">>,
        <<"x", "/", "i", "n", "d", "e", "x", ".", "j", "s">>} \subseteq rsFileSet
    /\ rsResult = Local(<<"x", ".", "t", "s">>)

\* the directory rootPath holds absFile: it is the root or lies below it
SnInsideRoot(absFile, absRoot) ==
    LET rootSegs == NormalizeSegments(SplitSlash(absRoot), <<>>, FALSE)
        fileSegs == NormalizeSegments(SplitSlash(absFile), <<>>, FALSE)
    IN /\ Len(rootSegs) <= Len(fileSegs)
       /\ SubSeq(fileSegs, 1, Len(rootSegs)) = rootSegs

(***************************************************************************)
(* C8: readSourceSnippet rejects with a permission error (status 403)      *)
(* every filePath whose resolved absolute path lies outside the directory  *)
(* rootPath, sibling directories whose name begins with the root's name    *)
(* included, and never returns content of a file outside rootPath.  The    *)
(* code tests a string prefix, so root /a/b admits /a/bc/x.                *)
(***************************************************************************)
C8_EscapingPathRejected ==
    LET absRoot == PathResolve(Cwd, snRoot)
        absFile == PathResolve(absRoot, snFile)
    IN (snResult # NotCalled /\ ~SnInsideRoot(absFile, absRoot)) =>
           snResult = HttpError(403)

(***************************************************************************)
(* buildStructureGraph                                                     *)
(***************************************************************************)
GraphBuilt == pc \in {"structure", "clones", "summarised", "done"}

EdgesOfType(type) ==
    {structureGraph.edges[i] :
       i \in {k \in 1..Len(structureGraph.edges) : structureGraph.edges[k].type = type}}

ScannedPaths == {NormalizePath(files[i].path) : i \in 1..Len(files)}

(***************************************************************************)
(* C6: in every structure graph that was built, each contains, defines and *)
(* import edge has its source id and its target id among the ids of the    *)
(* graph's nodes, and each import edge comes from a dependency edge of     *)
(* kind local whose source and target are both scanned files.              *)
(***************************************************************************)
C6_EdgesJoinNodes ==
    GraphBuilt =>
        LET nodeIds == {structureGraph.nodes[i].id : i \in 1..Len(structureGraph.nodes)} IN
        /\ \A e \in EdgesOfType("contains") \cup EdgesOfType("defines")
                      \cup EdgesOfType("import") :
              e.source \in nodeIds /\ e.target \in nodeIds
        /\ \A e \in EdgesOfType("import") :
              \E k \in 1..Len(dependencies.edges) :
                 LET dep == dependencies.edges[k] IN
                 /\ dep.kind = "local"
                 /\ dep.source \in ScannedPaths /\ dep.target \in ScannedPaths
                 /\ e.source = "file:" \o Text(dep.source)
                 /\ e.target = "file:" \o Text(dep.target)

\* a graph with edges of the three types, built from a project that also
\* has an external dependency
C6_Witness ==
    /\ GraphBuilt
    /\ EdgesOfType("contains") # {}
    /\ EdgesOfType("defines") # {}
    /\ EdgesOfType("import") # {}
    /\ \E k \in 1..Len(dependencies.edges) : dependencies.edges[k].kind = "external"

(***************************************************************************)
(* C7: for every file F and every export name E of F, exportUsage["F#E"]   *)
(* is above zero exactly when a file other than F imports E from F through *)
(* a locally resolved specifier or imports F as a namespace.  The code     *)
(* breaks it: a file that imports itself is credited as an importer.       *)
(***************************************************************************)
C7_UsedIffImportedByAnotherFile ==
    GraphBuilt =>
        \A exported \in structureGraph.exports : \A E \in exported.names :
           LET F == exported.path
               key == Text(F) \o "#" \o Text(E)
               usage == IF key \in DOMAIN structureGraph.exportUsage
                        THEN structureGraph.exportUsage[key] ELSE 0
               \* the import descriptors of file i that resolve locally to F
               ImportsOfF(i) ==
                 LET imports == ExtractExportsAndImportsForFile(
                                    files[i], DetectLanguage(files[i].ext)).imports
                 IN {imports[m] : m \in {n \in 1..Len(imports) :
                        \E k \in 1..Len(dependencies.edges) :
                           /\ dependencies.edges[k].kind = "local"
                           /\ dependencies.edges[k].source = NormalizePath(files[i].path)
                           /\ dependencies.edges[k].specifier = imports[n].specifier
                           /\ dependencies.edges[k].target = F}}
           IN (usage > 0) <=>
                 \E i \in 1..Len(files) :
                    /\ NormalizePath(files[i].path) # F
                    /\ \E imp \in ImportsOfF(i) : imp.hasNamespace \/ E \in imp.names

ClonesFound == pc \in {"clones", "summarised", "done"}

\* the similarities of the entries stored under source that name target
CloneSimilarities(source, target) ==
    IF source \notin DOMAIN clones THEN {}
    ELSE {clones[source][k].similarity :
            k \in {m \in 1..Len(clones[source]) : clones[source][m].targetId = target}}

CloneIds ==
    DOMAIN clones \cup UNION {{clones[A][k].targetId : k \in 1..Len(clones[A])} : A \in DOMAIN clones}

\* C5: in the clones map of the pipeline's symbols, an entry with targetId B
\* is stored under A exactly when an entry with targetId A is stored under
\* B, the two carry the same similarity, and no symbol is its own clone.
C5_ClonesSymmetric ==
    ClonesFound =>
        \A A \in CloneIds : \A B \in CloneIds :
            /\ (CloneSimilarities(A, B) # {}) <=> (CloneSimilarities(B, A) # {})
            /\ CloneSimilarities(A, B) = CloneSimilarities(B, A)
            /\ CloneSimilarities(A, B) # {} => A # B

\* a symbol with two clones, one of them in another file
C5_Witness ==
    /\ ClonesFound
    /\ \E A \in DOMAIN clones :
          /\ Len(clones[A]) >= 2
          /\ \E k \in 1..Len(clones[A]) : clones[A][k].filePath # clones[A][1].filePath

\* C9: analyzeProject raises an error only when the root is missing or is
\* not a directory; a parser or AST-traversal failure on a file never
\* propagates, and a report is still returned.
C9_OnlyRootErrorPropagates ==
    (pc = "threw" /\ report.rejected) =>
        /\ report.error = "Path is not a directory"
        /\ directories = <<>>

DependenciesBuilt == pc \in {"dependencies", "structure", "clones", "summarised", "done"}

\* the unresolved entries recorded for a source and a specifier
UnresolvedFor(source, specifier) ==
    {k \in 1..Len(dependencies.unresolved) :
        /\ dependencies.unresolved[k].reason = "Could not resolve locally"
        /\ dependencies.unresolved[k].source = source
        /\ dependencies.unresolved[k].specifier = specifier}

\* C11: a non-relative specifier yields an external edge and no unresolved
\* entry; a relative one that resolves yields a local edge and no unresolved
\* entry; a relative one that does not resolve yields exactly one unresolved
\* entry; an edge is external only when its specifier is non-relative.
C11_EdgeKindFollowsSpecifier ==
    DependenciesBuilt =>
        \A i \in 1..Len(dependencies.edges) :
            LET Holds(edge, resolves) ==
                  /\ ~IsRelativeSpecifier(edge.specifier) =>
                        /\ edge.kind = "external"
                        /\ UnresolvedFor(edge.source, edge.specifier) = {}
                  /\ IsRelativeSpecifier(edge.specifier) /\ resolves =>
                        /\ edge.kind = "local"
                        /\ UnresolvedFor(edge.source, edge.specifier) = {}
                  /\ IsRelativeSpecifier(edge.specifier) /\ ~resolves =>
                        Cardinality(UnresolvedFor(edge.source, edge.specifier)) = 1
                  /\ edge.kind = "external" => ~IsRelativeSpecifier(edge.specifier)
            IN Holds(dependencies.edges[i],
                     ResolveSpecifier(dependencies.edges[i].specifier,
                                      dependencies.edges[i].source, ScannedPaths) # Null)

\* the files symbol extraction parses and traverses: readable, within the
\* size limit, JavaScript or TypeScript
ParsedFiles ==
    {i \in 1..Len(files) :
        /\ files[i].size <= MAX_FILE_BYTES
        /\ ReadFile(files[i].path).readable
        /\ DetectLanguage(files[i].ext) \in {"JavaScript", "TypeScript"}
        /\ ~ParseThrows(ReadFile(files[i].path).stmts)}

\* structureGraph.symbols has a symbol of this file, name and kind
HasSymbol(path, name, kind) ==
    \E k \in 1..Len(structureGraph.symbols) :
        /\ structureGraph.symbols[k].path = NormalizePath(path)
        /\ structureGraph.symbols[k].name = name
        /\ structureGraph.symbols[k].kind = kind

\* C12: in a JS/TS file that parses, each variable declarator at program
\* scope initialised with a function or arrow expression, each named
\* function declaration and each class declaration yields a symbol named
\* after it, of kind function (component when capitalised) or class.
C12_DeclarationsYieldSymbols ==
    GraphBuilt =>
        \A i \in ParsedFiles :
            \A n \in 1..Len(ReadFile(files[i].path).stmts) :
                LET Yields(stmt) ==
                      /\ (stmt.type = "VariableDeclaration"
                          /\ stmt.init \in {"FunctionExpression", "ArrowFunctionExpression"})
                         => HasSymbol(files[i].path, stmt.name,
                                      IF stmt.name[1] \in DOMAIN UpperToLower
                                      THEN "component" ELSE "function")
                      /\ (stmt.type = "FunctionDeclaration" /\ stmt.name # <<>>)
                         => HasSymbol(files[i].path, stmt.name,
                                      IF stmt.name[1] \in DOMAIN UpperToLower
                                      THEN "component" ELSE "function")
                      /\ (stmt.type = "ClassDeclaration" /\ stmt.name # <<>>)
                         => HasSymbol(files[i].path, stmt.name, "class")
                IN Yields(ReadFile(files[i].path).stmts[n])

\* the readable files within the size limit that get no AST: not
\* JavaScript/TypeScript, or the parser throws
FallbackFiles ==
    {i \in 1..Len(files) :
        /\ files[i].size <= MAX_FILE_BYTES
        /\ ReadFile(files[i].path).readable
        /\ \/ DetectLanguage(files[i].ext) \notin {"JavaScript", "TypeScript"}
           \/ ParseThrows(ReadFile(files[i].path).stmts)}

SymbolsOfFile(path) ==
    SelectSeq(structureGraph.symbols, LAMBDA symbol : symbol.path = NormalizePath(path))

\* C13: a readable file of at most 256 KiB that is not JS/TS, or whose
\* parse fails, gets exactly one symbol, of kind file, with the id
\* file:{path}#__file__, startLine 1 and endLine the line count of the
\* file, also when the content is empty or only whitespace.
C13_OneFallbackSymbol ==
    GraphBuilt =>
        \A i \in FallbackFiles :
            LET Single(symbols, text) ==
                  /\ Len(symbols) = 1
                  /\ symbols[1].kind = "file"
                  /\ symbols[1].id = "file:" \o Text(NormalizePath(files[i].path)) \o "#__file__"
                  /\ symbols[1].startLine = 1
                  /\ symbols[1].endLine = LineCount(text)
            IN Single(SymbolsOfFile(files[i].path),
                      ContentText(ReadFile(files[i].path).stmts))

\* the statements of a file whose visitors push the entry of a symbol:
\* the declarations of its name, of the class or of the function visitors
EntriesOf(symbol) ==
    SelectSeq(ReadFile(symbol.path).stmts, LAMBDA stmt :
        /\ symbol.name = (IF stmt.name = <<>> THEN <<"d", "e", "f", "a", "u", "l", "t">> ELSE stmt.name)
        /\ stmt.exported # "named"
        /\ IF symbol.kind = "class" THEN stmt.type = "ClassDeclaration"
           ELSE \/ stmt.type = "FunctionDeclaration"
                \/ /\ stmt.type = "ExportDefaultDeclaration"
                   /\ stmt.init \in {"FunctionExpression", "ArrowFunctionExpression"})

\* C14: no two entries of structureGraph.symbols share an id; of several
\* extracted entries of a file with one id the one with the strictly
\* longest text is kept, the first one on a tie; an id has the form
\* {kind}:{filePath}#{name}, and a class keeps the kind class.
C14_SymbolIdsUnique ==
    GraphBuilt =>
        /\ \A k, m \in 1..Len(structureGraph.symbols) :
              structureGraph.symbols[k].id = structureGraph.symbols[m].id => k = m
        /\ \A k \in 1..Len(structureGraph.symbols) :
              LET Kept(symbol, extracted) ==
                    symbol.kind # "file" =>
                       /\ symbol.id = symbol.kind \o ":" \o Text(symbol.path)
                                        \o "#" \o Text(symbol.name)
                       /\ \E n \in 1..Len(extracted) :
                             /\ symbol.text = extracted[n].text
                             /\ \A m \in 1..Len(extracted) :
                                   Len(extracted[m].text) <= Len(extracted[n].text)
                             /\ \A m \in 1..(n - 1) :
                                   Len(extracted[m].text) < Len(extracted[n].text)
              IN Kept(structureGraph.symbols[k], EntriesOf(structureGraph.symbols[k]))
        /\ \A i \in ParsedFiles : \A n \in 1..Len(ReadFile(files[i].path).stmts) :
              LET Class(stmt) ==
                    (stmt.type = "ClassDeclaration" /\ stmt.exported = "no")
                       => HasSymbol(files[i].path, stmt.name, "class")
              IN Class(ReadFile(files[i].path).stmts[n])

\* three declarations of one function name: the first is the longest, the
\* last one ties with it, and the first is the one kept; in another file a
\* capitalised class has kept the kind class
C14_Witness ==
    /\ GraphBuilt
    /\ \E k \in 1..Len(structureGraph.symbols) :
          /\ Len(EntriesOf(structureGraph.symbols[k])) = 3
          /\ structureGraph.symbols[k].text = EntriesOf(structureGraph.symbols[k])[1].text
          /\ Len(EntriesOf(structureGraph.symbols[k])[3].text)
               = Len(structureGraph.symbols[k].text)

\* the entry of the window of w hashes starting at position s that has the
\* minimum hash, the latest one when several share it
WindowMinimum(hashes, s, w) ==
    CHOOSE e \in {hashes[i] : i \in s..(s + w - 1)} :
        \A i \in s..(s + w - 1) :
            \/ e.hash < hashes[i].hash
            \/ e.hash = hashes[i].hash /\ e.index >= hashes[i].index

\* one minimum for each window from left to right, an entry equal to the
\* one before it dropped; the single global minimum for at most w hashes
WindowMinima(hashes, w) ==
    LET Kept(minima) ==
          LET kept == {s \in 1..Len(minima) : s = 1 \/ minima[s] # minima[s - 1]} IN
          [k \in 1..Cardinality(kept) |->
             minima[CHOOSE s \in kept : Cardinality({t \in kept : t <= s}) = k]]
    IN IF hashes = <<>> THEN <<>>
       ELSE IF Len(hashes) <= w THEN <<WindowMinimum(hashes, 1, Len(hashes))>>
       ELSE Kept([s \in 1..(Len(hashes) - w + 1) |-> WindowMinimum(hashes, s, w)])

\* C15: for more than w hashes winnow returns the minimum of each window of
\* w consecutive hashes from left to right (the latest index on ties), an
\* entry equal to the one emitted just before it dropped; for at most w
\* hashes it returns the single global minimum, latest index on ties.
C15_WinnowEmitsWindowMinima ==
    fnResult.called => fnResult.value = WindowMinima(fnArgs.hashes, fnArgs.windowSize)

\* more hashes than the window holds, two equal minima in the first window
\* (the later one emitted), and fewer fingerprints than windows
C15_Witness ==
    /\ fnResult.called
    /\ Len(fnArgs.hashes) > fnArgs.windowSize + 1
    /\ Len(fnResult.value) < Len(fnArgs.hashes) - fnArgs.windowSize + 1
    /\ \E i \in 1..fnArgs.windowSize :
          /\ fnArgs.hashes[i].hash = fnResult.value[1].hash
          /\ fnArgs.hashes[i].index < fnResult.value[1].index

\* the tokens a symbol's text tokenizes to
SymbolTokens(symbol) ==
    LET Values(runs) == [k \in 1..Len(runs) |-> runs[k].token]
    IN Values(TokenizeWithMeta(symbol.text))

Candidates ==
    LET RECURSIVE From(_)
        From(k) ==
          IF k > Len(structureGraph.symbols) THEN <<>>
          ELSE (IF structureGraph.symbols[k].kind \in {"function", "component"}
                THEN EnrichSymbol(structureGraph.symbols[k]) ELSE <<>>) \o From(k + 1)
    IN From(1)

\* 2 * sum over the tokens of min(countA, countB) / (|A| + |B|)
Dice(tokensA, tokensB) ==
    LET Count(tokens, token) == Cardinality({k \in 1..Len(tokens) : tokens[k] = token})
        common == {<<token, n>> \in {tokensA[k] : k \in 1..Len(tokensA)} \X (1..Len(tokensA)) :
                     n <= Count(tokensA, token) /\ n <= Count(tokensB, token)}
    IN Fraction(2 * Cardinality(common), Len(tokensA) + Len(tokensB))

\* max(segmentOverlap, dice) when the fingerprint hashes intersect, else dice
ExpectedSimilarity(a, b) ==
    LET Larger(x, y) == IF AtLeast(x, y) THEN x ELSE y
        Shared == {a.fingerprintHashes[k] : k \in 1..Len(a.fingerprintHashes)}
                    \cap {b.fingerprintHashes[k] : k \in 1..Len(b.fingerprintHashes)}
    IN IF Shared # {}
       THEN Larger(ComputeSymbolOverlap(a, b).similarity, Dice(a.tokens, b.tokens))
       ELSE Dice(a.tokens, b.tokens)

\* C17: the similarity of a compared pair is max(segmentOverlap, dice) when
\* the fingerprint hash sets intersect and dice alone otherwise; the pair
\* gets clone entries exactly when it is at least 0.55, and every stored
\* similarity (in hundredths here) lies between 0.55 and 1.
C17_SimilarityIsMaxOfOverlapAndDice ==
    ClonesFound =>
        /\ LET Pairs(candidates) ==
                 \A i, j \in 1..Len(candidates) :
                    LET Stored(a, b, expected) ==
                          IF AtLeast(expected, DEFAULT_THRESHOLD)
                          THEN /\ CloneSimilarities(a.id, b.id) = {ToFixed2(expected)}
                               /\ CloneSimilarities(b.id, a.id) = {ToFixed2(expected)}
                          ELSE /\ CloneSimilarities(a.id, b.id) = {}
                               /\ CloneSimilarities(b.id, a.id) = {}
                    IN i < j => Stored(candidates[i], candidates[j],
                                       ExpectedSimilarity(candidates[i], candidates[j]))
           IN Pairs(Candidates)
        /\ \A A \in DOMAIN clones : \A k \in 1..Len(clones[A]) :
              clones[A][k].similarity \in 55..100

\* a clone pair whose segment overlap is above the threshold and whose dice
\* is below it, next to a compared pair that is below the threshold
C17_Witness ==
    /\ pc = "clones"
    /\ LET Seen(candidates) ==
             \E i, j, k \in 1..Len(candidates) :
                /\ i < j
                /\ HasSharedFingerprints(candidates[i], candidates[j])
                /\ ~AtLeast(Dice(candidates[i].tokens, candidates[j].tokens),
                            DEFAULT_THRESHOLD)
                /\ CloneSimilarities(candidates[i].id, candidates[j].id) # {}
                /\ CloneSimilarities(candidates[i].id, candidates[k].id) = {}
                /\ k \notin {i, j}
       IN Seen(Candidates)

SmellsDetected == fnResult.called /\ "graph" \in DOMAIN fnArgs

SmellIssued(type) ==
    \E k \in 1..Len(fnResult.value) : fnResult.value[k].type = type

SmellSeverity(type, severity) ==
    \E k \in 1..Len(fnResult.value) :
        fnResult.value[k].type = type /\ fnResult.value[k].severity = severity

FunctionLikeInput == fnArgs.graph.symbols[1].kind \in {"function", "component"}

\* C18: a function-like symbol that spans 120 lines and contains 30 if/else
\* branches gets a long-function issue of severity warning and a
\* branch-heavy issue of severity error.
C18_LongFunctionWarningBranchHeavyError ==
    (SmellsDetected /\ FunctionLikeInput
     /\ fnArgs.written.lines = 120 /\ fnArgs.written.branches = 30)
    => /\ SmellSeverity("long-function", "warning")
       /\ SmellSeverity("branch-heavy", "error")

\* an issue of the type is present iff the count reaches the lower
\* threshold, with the higher severity iff it reaches the upper one
SmellThreshold(type, count, lower, upper, high, low) ==
    /\ SmellIssued(type) <=> count >= lower
    /\ SmellSeverity(type, high) <=> count >= upper
    /\ SmellSeverity(type, low) <=> (count >= lower /\ count < upper)

SmellSpanAndBranchThresholds ==
    SmellsDetected =>
      IF FunctionLikeInput
      THEN /\ SmellThreshold("long-function", fnArgs.written.lines, 50, 100,
                             "error", "warning")
           /\ SmellThreshold("branch-heavy", fnArgs.written.branches, 15, 25,
                             "error", "warning")
      ELSE fnArgs.graph.symbols[1].kind = "class" =>
           /\ SmellThreshold("large-class", fnArgs.written.lines, 100, 200,
                             "error", "warning")
           /\ SmellThreshold("many-methods", fnArgs.written.methods, 15, 25,
                             "error", "warning")

\* C19: for a function-like symbol long-function is emitted iff its span is
\* at least 50 lines (error iff at least 100, else warning), many-parameters
\* iff it has at least 5 parameters (warning iff at least 8, else info) and
\* branch-heavy iff it has at least 15 branches (error iff at least 25, else
\* warning); for a class symbol large-class iff its span is at least 100
\* lines (error iff at least 200) and many-methods iff it has at least 15
\* methods (error iff at least 25).
C19_SmellThresholds ==
    /\ SmellSpanAndBranchThresholds
    /\ (SmellsDetected /\ FunctionLikeInput)
       => SmellThreshold("many-parameters", fnArgs.written.parameters, 5, 8,
                         "warning", "info")

\* C20: a fallback symbol of kind file gets a smell issue whenever its text
\* meets a criterion (a span of 50 lines or more, 15 branches or more), and
\* none when it meets no criterion.
C20_FileSymbolTakesPartInSmells ==
    (SmellsDetected /\ fnArgs.graph.symbols[1].kind = "file")
    => (fnResult.value # <<>>
        <=> (fnArgs.written.lines >= 50 \/ fnArgs.written.branches >= 15))

Reported == pc = "done" /\ ~report.rejected

\* the edges of the dependency graph that leave (source) or reach (target)
\* the file, of the given kind
EdgesAt(field, path, kind) ==
    Cardinality({i \in 1..Len(dependencies.edges) :
                   dependencies.edges[i][field] = path
                   /\ dependencies.edges[i].kind = kind})

TopEntries(list) ==
    /\ Len(list) <= 5
    /\ \A i \in 1..(Len(list) - 1) : list[i].count >= list[i + 1].count

\* C21: the fanOut count of a file is the number of its outbound local
\* import edges and the fanIn count the number of its inbound local import
\* edges (external edges count in neither); fanOut, fanIn and
\* externalPackages hold at most 5 entries each, in non-increasing order of
\* count.
C21_FanCountsLocalEdges ==
    Reported =>
      /\ \A i \in 1..Len(report.dependencyInsights.fanOut) :
            report.dependencyInsights.fanOut[i].count
              = EdgesAt("source", report.dependencyInsights.fanOut[i].path, "local")
      /\ \A i \in 1..Len(report.dependencyInsights.fanIn) :
            report.dependencyInsights.fanIn[i].count
              = EdgesAt("target", report.dependencyInsights.fanIn[i].path, "local")
      /\ TopEntries(report.dependencyInsights.fanOut)
      /\ TopEntries(report.dependencyInsights.fanIn)
      /\ TopEntries(report.dependencyInsights.externalPackages)

SeverityRank(severity) ==
    CASE severity = "error" -> 1 [] severity = "warning" -> 2 [] OTHER -> 3

\* C22: the issues panel lists the issues of the report ordered by severity,
\* every error before every warning and every warning before every info,
\* whatever the order of report.issues.
C22_IssuesPanelSortedBySeverity ==
    pc = "rendered" =>
      /\ Len(issuesPanel) = Len(report.issues)
      /\ \A i \in 1..Len(issuesPanel) : \A j \in i..Len(issuesPanel) :
            SeverityRank(issuesPanel[i].severity) <= SeverityRank(issuesPanel[j].severity)

\* the walk met nothing below the root
EmptyRoot == treeEntries = 1 /\ files = <<>> /\ warnings = <<>> /\ clean

\* C23: for an empty root directory the analysis followed by
\* generateTextSummary yields totals.files = 0, totals.directories = 1,
\* languages = [], issues = [] and the overview "No notable architectural
\* facts detected.".
C23_EmptyRootNarrative ==
    (pc \in {"sent", "rendered"} /\ EmptyRoot) =>
      /\ report.summary.totals.files = 0
      /\ report.summary.totals.directories = 1
      /\ report.summary.languages = <<>>
      /\ report.issues = <<>>
      /\ report.narrative.overview = "No notable architectural facts detected."

\* the import descriptors of file i
ImportsOf(i) ==
    ExtractExportsAndImportsForFile(files[i], DetectLanguage(files[i].ext)).imports

\* the import descriptors of file i whose specifier the dependency graph
\* resolves locally to F and that name E, or bring in the whole namespace
CreditingImports(i, F, E) ==
    {m \in 1..Len(ImportsOf(i)) :
        /\ \E k \in 1..Len(dependencies.edges) :
              /\ dependencies.edges[k].kind = "local"
              /\ dependencies.edges[k].source = NormalizePath(files[i].path)
              /\ dependencies.edges[k].specifier = ImportsOf(i)[m].specifier
              /\ dependencies.edges[k].target = F
        /\ (ImportsOf(i)[m].hasNamespace \/ E \in ImportsOf(i)[m].names)}

UsageOf(F, E) ==
    IF Text(F) \o "#" \o Text(E) \in DOMAIN structureGraph.exportUsage
    THEN structureGraph.exportUsage[Text(F) \o "#" \o Text(E)] ELSE 0

\* C24: exportUsage[target#name] is the number of distinct importer files
\* credited for that export: an importer that repeats an import, or imports
\* the name both by name and through a namespace, adds 1; a namespace import
\* credits every exported name of the target; a named import of a name the
\* target does not export credits nothing, so every key F#E of exportUsage
\* has E in exports[F].
C24_ExportUsageCountsImporters ==
    GraphBuilt =>
      /\ \A exported \in structureGraph.exports : \A E \in exported.names :
            UsageOf(exported.path, E)
              = Cardinality({i \in 1..Len(files) :
                               CreditingImports(i, exported.path, E) # {}})
      /\ \A key \in DOMAIN structureGraph.exportUsage :
            \E exported \in structureGraph.exports : \E E \in exported.names :
               key = Text(exported.path) \o "#" \o Text(E)

\* an importer credits one export through two import descriptors, and
\* names an export its target does not have
C24_Witness ==
    /\ GraphBuilt
    /\ \E exported \in structureGraph.exports : \E E \in exported.names :
          /\ UsageOf(exported.path, E) = 1
          /\ \E i \in 1..Len(files) :
                Cardinality(CreditingImports(i, exported.path, E)) = 2

\* the symbols of the analysed project that are top-level functions or components
FunctionLike(symbol) == symbol.kind \in {"function", "component"}

\* the function-like symbols of the callee's file, other than the callee,
\* whose text calls the callee by its name
CallersOf(callee) ==
    {structureGraph.symbols[k].id :
       k \in {h \in 1..Len(structureGraph.symbols) :
                /\ FunctionLike(structureGraph.symbols[h])
                /\ structureGraph.symbols[h].fileId = callee.fileId
                /\ structureGraph.symbols[h].id # callee.id
                /\ callee.name \in CalledIdentifiers(structureGraph.symbols[h].text)}}

\* incomingCalls[id], 0 when the object has no such key
IncomingCount(id) ==
    IF \E entry \in structureGraph.incomingCalls : entry.calleeId = id
    THEN (CHOOSE entry \in structureGraph.incomingCalls : entry.calleeId = id).count
    ELSE 0

\* C25: incomingCalls of a callee is the number of distinct top-level
\* function-like symbols of its file, other than itself, whose body calls it
\* by name; nothing else is counted
C25_IncomingCallsCountCallers ==
    (GraphBuilt /\ ~structureGraph.threw) =>
      /\ \A k \in 1..Len(structureGraph.symbols) :
            FunctionLike(structureGraph.symbols[k]) =>
              IncomingCount(structureGraph.symbols[k].id)
                = Cardinality(CallersOf(structureGraph.symbols[k]))
      /\ \A entry \in structureGraph.incomingCalls :
            \E k \in 1..Len(structureGraph.symbols) :
               /\ FunctionLike(structureGraph.symbols[k])
               /\ structureGraph.symbols[k].id = entry.calleeId
\* the names on a recorded path, the root's "." left out
SegmentsOf(path) == SelectSeq(SplitSlash(path), LAMBDA segment : segment # RootPath)

\* C26: no recorded file or directory below the root is named by the
\* ignored-directory set or the ignored-file set, and nothing recorded lies
\* under a directory of an ignored name
C26_NothingIgnoredIsRecorded ==
    LET ignoredNames == DEFAULT_IGNORED_DIRECTORIES \cup DEFAULT_IGNORED_FILES
        recorded == {files[i].path : i \in 1..Len(files)}
                      \cup {directories[i].path : i \in 1..Len(directories)}
    IN \A path \in recorded :
          \A k \in 1..Len(SegmentsOf(path)) : SegmentsOf(path)[k] \notin ignoredNames
\* lines 47-55 of findSymbolClones for a taken as symbols[i] and b as
\* symbols[j]: the similarity the pair is judged and recorded with
PairSimilarity(a, b) ==
    LET Judged(overlap, dice) ==
          IF overlap # Null /\ AtLeast(overlap.similarity, dice)
          THEN overlap.similarity ELSE dice
    IN Judged(IF HasSharedFingerprints(a, b) THEN ComputeSymbolOverlap(a, b) ELSE Null,
              DiceCoefficient(a.tokens, b.tokens))

SameValue(x, y) == AtLeast(x, y) /\ AtLeast(y, x)

\* C27: the similarity of two symbols is the same whichever of them comes
\* first, and so is whether the pair is reported as clones
C27_SimilarityIsSymmetric ==
    ClonesFound =>
       LET Pairs(candidates) ==
             \A i, j \in 1..Len(candidates) :
                (i < j /\ LanguagesAreCompatible(candidates[i].language,
                                                  candidates[j].language)) =>
                   /\ SameValue(PairSimilarity(candidates[i], candidates[j]),
                                PairSimilarity(candidates[j], candidates[i]))
                   /\ AtLeast(PairSimilarity(candidates[i], candidates[j]), DEFAULT_THRESHOLD)
                        <=> AtLeast(PairSimilarity(candidates[j], candidates[i]),
                                    DEFAULT_THRESHOLD)
       IN Pairs(Candidates)
\* the symbol of the graph a clone entry names as its target
TargetOf(entry) ==
    structureGraph.symbols[CHOOSE k \in 1..Len(structureGraph.symbols) :
                             structureGraph.symbols[k].id = entry.targetId]

\* the clone entries recorded, those of all sources together
CloneEntries == UNION {{clones[source][k] : k \in 1..Len(clones[source])} : source \in DOMAIN clones}

\* C28: every clone entry has startLine <= endLine, both inside the lines
\* of its target symbol
C28_CloneRangeInsideTarget ==
    ClonesFound =>
       \A entry \in CloneEntries :
          /\ entry.startLine <= entry.endLine
          /\ TargetOf(entry).startLine <= entry.startLine
          /\ entry.endLine <= TargetOf(entry).endLine

\* a range of several lines, taken from merged segments, that ends before
\* its target does
C28_Witness ==
    /\ pc = "clones"
    /\ \E entry \in CloneEntries :
          /\ entry.startLine < entry.endLine
          /\ entry.endLine < TargetOf(entry).endLine
\* C29: when winnow is handed more hashes than the window holds, every
\* window of windowSize consecutive positions holds the index of a
\* fingerprint it returns
C29_EveryWindowHoldsAFingerprint ==
    (fnResult.called /\ Len(fnArgs.hashes) > fnArgs.windowSize) =>
       \A windowStart \in 0..(Len(fnArgs.hashes) - fnArgs.windowSize) :
          \E k \in 1..Len(fnResult.value) :
             fnResult.value[k].index \in windowStart..(windowStart + fnArgs.windowSize - 1)

\* a window of WINDOW_SIZE slid over more hashes than it holds, with fewer
\* fingerprints than windows
C29_Witness ==
    /\ fnResult.called
    /\ fnArgs.windowSize = WINDOW_SIZE
    /\ Len(fnArgs.hashes) > WINDOW_SIZE
    /\ Len(fnResult.value) < Len(fnArgs.hashes) - WINDOW_SIZE + 1
\* two or more analyses were run, the last one submitted while another was
\* awaiting its response, and every response has arrived, none an error
OverlappingAnalysesCompleted ==
    /\ Len(submitted) >= 2
    /\ Last(submitted).overlaps
    /\ inFlight = {}
    /\ \A k \in 1..Len(responded) : responded[k].ok

\* C30: once overlapping analyses of the diagram page have completed,
\* lastReport, diagramData and the rendered mind map are those of the root
\* path submitted last, and the snippet cache holds no entry of another
\* root path's analysis
C30_LatestSubmitWins ==
    OverlappingAnalysesCompleted =>
       /\ lastReport = ReportFor(Last(submitted).rootPath)
       /\ diagramData = BuildMindMapData(ReportFor(Last(submitted).rootPath))
       /\ graphContainer = diagramData
       /\ \A cacheKey \in snippetCache :
             cacheKey.rootPath = ReportFor(Last(submitted).rootPath).rootPath
====
